---------------------------- MODULE Spec2Model ----------------------------
(***************************************************************************)
(* CloudDeploy (src/server.js, lines 1-958): the deployment orchestration  *)
(* engine of a single Node.js process.                                     *)
(*                                                                         *)
(* JavaScript runs every handler to completion between two awaits, so one  *)
(* action of this model is one such synchronous segment of a handler: it   *)
(* takes the outcome of the call the handler was suspended at and runs the *)
(* code up to the next await (or to the response).  Calls to the container *)
(* engine, the database, the file system and the tunnel subprocess are     *)
(* the environment: each may succeed or fail.                              *)
(***************************************************************************)
EXTENDS Naturals, Integers, Sequences, FiniteSets, TLC

(***************************************************************************)
(* Bounds of the model.                                                    *)
(***************************************************************************)
\* creation requests that get a deployment id in one run of the concurrent
\* specification
MaxIds == 2
\* the ports a creation request can be given: the NumPorts lowest ports that
\* getRandomPort computes
NumPorts == 2
\* the values of Math.random() just below 1 that a call of getRandomPort on
\* its own can draw: 1 - below / 2^53 for below in 1..MaxUlps
MaxUlps == 4
\* the other values of Math.random() that a call draws are multiples of
\* 1 / Grid (a power of two, so that they are doubles)
Grid == 8192
\* deletion requests that can be suspended at the same time
MaxDeletes == 2
\* largest process.env.MAX_DEPLOYMENTS of a modelled installation (default 50)
MaxLimit == 2
\* the ports a set handed to releasePort is drawn from
PortSpan == 5
\* WebSocket connections opened over the life of a run
MaxObservers == 2
\* status lines the engine reports during one pull or build
MaxEvents == 2
\* read requests (logs, status, fix-port) that can be suspended at the same
\* time
MaxReads == 1

(***************************************************************************)
(* Program constants.                                                      *)
(***************************************************************************)
\* getRandomPort: Math.floor(Math.random() * (9999 - 5000) + 5000)
PortBase == 5000
PortTop == 9999
\* getRandomPort: while (attempts < 100)
MaxProbes == 100
\* validateDockerImage: image.length < 256
MaxImageLen == 256
\* validatePort: portNum <= 65535
MaxPortNum == 65535
\* waitForContainer: maxAttempts = 10
maxAttempts == 10
\* waitForContainer: setTimeout(resolve, 2000) after a failed attempt
ProbeDelay == 2000
\* initDB: let retries = 10
Retries == 10
\* initDB: let delay = 2000
FirstDelay == 2000
\* initDB: Math.min(delay * 1.5, 15000)
MaxDelay == 15000

Null == 0
NoPort == 0

Ids == 1..MaxIds
\* the ids handed out in a run that creates a single deployment
Solo == {1}

(***************************************************************************)
(* Port allocator.                                                         *)
(***************************************************************************)
\* The values of Math.random() of the model. A value r of [0, 1) is written
\* either as the fraction r.num / Grid (r.below = 0), or as the double
\* 1 - r.below / 2^53 just under 1 (r.num = Grid).
\*
\* Math.floor(Math.random() * (9999 - 5000) + 5000) for the value r of
\* Math.random().
\* r = num / Grid: the product (9999 - 5000) * num / Grid and its sum with
\* 5000 have fewer than 53 significant bits, both are exact, and the floor
\* is taken of the exact value.
\* r = 1 - below / 2^53: the exact product is 4999 less
\* (9999 - 5000) * below units of 2^-53; it is rounded to a double of
\* [4096, 8192), a multiple of 2^-40 (ulpProduct units). The sum with 5000
\* is 9999 less that rounded deficit and is rounded to a double of
\* [8192, 16384), a multiple of 2^-39 (ulpSum units). Both roundings are to
\* the nearest double, ties to the even one (RoundEven). The floor is 9999
\* when the deficit has been rounded away, and 9998 otherwise.
randomPort(r) ==
    LET ulpProduct == 8192
        ulpSum == 16384
        RoundEven(x, unit) ==
            LET down == (x \div unit) * unit
                up == down + unit
            IN  IF x - down < up - x THEN down
                ELSE IF x - down > up - x THEN up
                ELSE IF (down \div unit) % 2 = 0 THEN down ELSE up
        productDeficit == RoundEven((PortTop - PortBase) * r.below, ulpProduct)
        sumDeficit == RoundEven(productDeficit, ulpSum)
    IN  IF r.below = 0
        THEN PortBase + ((PortTop - PortBase) * r.num) \div Grid
        ELSE IF sumDeficit = 0 THEN PortTop ELSE PortTop - 1

\* the values a probe of a creation request draws: they compute the NumPorts
\* lowest ports
LowDraws == {[num |-> num, below |-> 0] : num \in 0..(2 * NumPorts - 1)}

\* the values a probe of a call of getRandomPort on its own draws: the low
\* values, the middle of [0, 1), the largest value of the grid and the
\* doubles just below 1
AllDraws ==
    LowDraws \cup {[num |-> Grid \div 2, below |-> 0], [num |-> Grid - 1, below |-> 0]}
        \cup {[num |-> Grid, below |-> below] : below \in 1..MaxUlps}

\* The loop of getRandomPort() reaches its probe number `attempts` (from 0)
\* when every earlier probe computed a used port.
Reaches(used, draws, attempts) ==
    attempts = 0 \/ {randomPort(r) : r \in draws} \cap used # {}

\* The ports probe number `attempts` can return: it computes the port of the
\* value it drew and returns it when it is not in usedPorts.
ReturnedAt(used, draws, attempts) ==
    IF Reaches(used, draws, attempts)
    THEN {randomPort(r) : r \in {x \in draws : randomPort(x) \notin used}}
    ELSE {}

\* an allocator that returns the port it computed without looking at
\* usedPorts
drawnPort(used, draws) == {randomPort(r) : r \in draws} \cup {NoPort}

\* getRandomPort(): the port returned by one of the probes 0..MaxProbes-1,
\* or the throw (NoPort) when all MaxProbes probes computed used ports.
getRandomPort(used, draws) ==
    UNION {ReturnedAt(used, draws, attempts) : attempts \in 0..(MaxProbes - 1)}
        \cup (IF Reaches(used, draws, MaxProbes) THEN {NoPort} ELSE {})

\* a release that leaves the set as it is
keepPort(used, port) == used

\* a release that empties the whole set
clearPorts(used, port) == IF port # Null THEN {} ELSE used

\* releasePort(port): if (port) usedPorts.delete(port)
releasePort(used, port) == IF port # Null THEN used \ {port} ELSE used

\* the limit test with > for >=: it lets the store grow to MAX_DEPLOYMENTS + 1
limitExceeded(deps, max) == Cardinality(DOMAIN deps) > max

\* checkDeploymentLimit(): TRUE when it throws (deployments.size >= MAX_DEPLOYMENTS)
checkDeploymentLimit(deps, max) == Cardinality(DOMAIN deps) >= max

(***************************************************************************)
(* Input validation.  A string is a sequence of one-character strings; a   *)
(* value that is not a string (undefined, null) is the empty sequence      *)
(* here, which both validators reject as the code rejects a falsy value.   *)
(***************************************************************************)
Digits == {"0", "1", "2", "3", "4", "5", "6", "7", "8", "9"}
Letters == {"a", "b", "c", "d", "e", "f", "g", "h", "i", "j", "k", "l", "m",
            "n", "o", "p", "q", "r", "s", "t", "u", "v", "w", "x", "y", "z",
            "A", "B", "C", "D", "E", "F", "G", "H", "I", "J", "K", "L", "M",
            "N", "O", "P", "Q", "R", "S", "T", "U", "V", "W", "X", "Y", "Z"}
\* [a-zA-Z0-9._\/-]
ImageNameChars == Digits \cup Letters \cup {".", "_", "/", "-"}
\* [a-zA-Z0-9._-]
ImageTagChars == Digits \cup Letters \cup {".", "_", "-"}

AllIn(s, from, to, chars) == \A i \in from..to : s[i] \in chars

\* /^[a-zA-Z0-9._\/-]+:[a-zA-Z0-9._-]+$|^[a-zA-Z0-9._\/-]+$/
imageRegex(s) ==
    \/ \E k \in 2..(Len(s) - 1) :
          /\ s[k] = ":"
          /\ AllIn(s, 1, k - 1, ImageNameChars)
          /\ AllIn(s, k + 1, Len(s), ImageTagChars)
    \/ Len(s) >= 1 /\ AllIn(s, 1, Len(s), ImageNameChars)

validateDockerImage(image) ==
    /\ Len(image) > 0
    /\ imageRegex(image)
    /\ Len(image) < MaxImageLen

DigitVal(c) ==
    CASE c = "0" -> 0 [] c = "1" -> 1 [] c = "2" -> 2 [] c = "3" -> 3
      [] c = "4" -> 4 [] c = "5" -> 5 [] c = "6" -> 6 [] c = "7" -> 7
      [] c = "8" -> 8 [] c = "9" -> 9
      [] c \in {"a", "A"} -> 10 [] c \in {"b", "B"} -> 11
      [] c \in {"c", "C"} -> 12 [] c \in {"d", "D"} -> 13
      [] c \in {"e", "E"} -> 14 [] c \in {"f", "F"} -> 15

HexDigits == Digits \cup {"a", "b", "c", "d", "e", "f", "A", "B", "C", "D", "E", "F"}
\* StrWhiteSpaceChar, the characters parseInt strips from the front of its
\* argument: TAB, LF, VT, FF, CR, SP, NBSP, the Unicode space separators
\* (category Zs), LS, PS and the byte order mark.  A character that has no
\* escape in a TLA+ string is written by its code point.
WhiteSpace == {" ", "\t", "\n", "\f", "\r", "U+000B", "U+00A0", "U+1680",
               "U+2000", "U+2001", "U+2002", "U+2003", "U+2004", "U+2005",
               "U+2006", "U+2007", "U+2008", "U+2009", "U+200A", "U+2028",
               "U+2029", "U+202F", "U+205F", "U+3000", "U+FEFF"}

\* The value of the longest prefix of s[i..] made of digits of the radix.
RECURSIVE DigitsPrefix(_, _, _, _)
DigitsPrefix(s, i, radix, acc) ==
    IF i <= Len(s) /\ s[i] \in (IF radix = 16 THEN HexDigits ELSE Digits)
    THEN DigitsPrefix(s, i + 1, radix, acc * radix + DigitVal(s[i]))
    ELSE acc

RECURSIVE SkipSpace(_, _)
SkipSpace(s, i) == IF i <= Len(s) /\ s[i] \in WhiteSpace THEN SkipSpace(s, i + 1) ELSE i

\* parseInt(string) without a radix: leading white space, an optional sign,
\* an optional 0x/0X prefix (radix 16), then the longest prefix of digits;
\* NaN when there is no digit.
NaN == -1000000
parseInt(s) ==
    LET b == SkipSpace(s, 1)
        signed == b <= Len(s) /\ s[b] \in {"-", "+"}
        neg == signed /\ s[b] = "-"
        d == IF signed THEN b + 1 ELSE b
        hex == d + 1 <= Len(s) /\ s[d] = "0" /\ s[d + 1] \in {"x", "X"}
        from == IF hex THEN d + 2 ELSE d
        radix == IF hex THEN 16 ELSE 10
        has == from <= Len(s) /\ s[from] \in (IF hex THEN HexDigits ELSE Digits)
        val == DigitsPrefix(s, from, radix, 0)
    IN  IF has THEN (IF neg THEN 0 - val ELSE val) ELSE NaN

\* !isNaN(portNum) && portNum > 0 && portNum <= 65535
validatePort(port) ==
    LET portNum == parseInt(port)
    IN  portNum # NaN /\ portNum > 0 /\ portNum <= MaxPortNum

\* The request bodies that are submitted in the model.
Images == { <<"n", "g", "i", "n", "x", ":", "a", "l", "p", "i", "n", "e">>,
            <<"n", "g", "i", "n", "x", ":", ":", "1">>,
            <<>> }
AppPorts == { <<"8", "0">>, <<"8", "0", "a">>, <<"0", "x", "5", "0">>, <<"0">>,
              <<"7", "0", "0", "0", "0">>, <<"a">>, <<"\t", "8", "0">>,
              <<"U+00A0", "\n", "0">> }

(***************************************************************************)
(* State.                                                                  *)
(***************************************************************************)
VARIABLES
    deployments,  \* const deployments = new Map(): id -> deployment object
    usedPorts,    \* const usedPorts = new Set()
    tunnels,      \* const tunnels = new Map(): id -> {url, process, close}
    db,           \* let db: TRUE when initDB left a connection
    MAX_DEPLOYMENTS, \* parseInt(process.env.MAX_DEPLOYMENTS || '50')
    boot,         \* the startup chain of lines 945-958: where it is, and the
                  \* rows loadDeploymentsFromDB has still to visit
    published,    \* history: the ids whose record has carried a public address
    table,        \* the rows of the persisted table `deployments`: id -> row
    containers,   \* the container engine: container id -> [state, port]
    dirs,         \* the build directories deployments/build-<id> that exist
    cleanups,     \* ids whose 5 s build-directory cleanup timer is pending
    proc,         \* the cloudflared subprocess spawned for a deployment id
    tcall,        \* the createPublicTunnel call of a deployment id, and whether
                  \* the UPDATE its continuation sent is still to be carried out
    probing,      \* the detached waitForContainer calls still running: id -> its
                  \* loop counter i, its position and the axios.get calls made
    reqs,         \* creation requests suspended at an await: id -> locals
    dels,         \* deletion requests suspended at an await: slot -> locals
    reads,        \* read requests suspended at an await: slot -> locals
    nextId,       \* the next deployment id uuidv4() yields
    clients,      \* wss.clients, and the sockets that have closed: observer ->
                  \* its readyState, the messages sent to it, and how many
                  \* events each running creation had issued when it connected
    resp          \* the response sent by the last step (NoResp: none)

store == <<deployments, usedPorts, tunnels>>
persisted == <<db, MAX_DEPLOYMENTS, boot, published, table>>
engine == <<containers, dirs, cleanups>>
tunnel == <<proc, tcall, probing>>
vars == <<deployments, usedPorts, tunnels, db, MAX_DEPLOYMENTS, boot, published, table, containers, dirs, cleanups,
          proc, tcall, probing, reqs, dels, reads, nextId, clients, resp>>

Empty == <<>>

\* A response: the operation, the deployment id it is about (0: none), the
\* HTTP status, the error message (as a tag), the warnings list, the url, and
\* the host port the request had allocated (0: none).
NoResp == [op |-> "none", id |-> 0, code |-> 0, error |-> "", warnings |-> <<>>,
           url |-> <<>>, port |-> 0]
Response(op, id, code, error, port) ==
    [op |-> op, id |-> id, code |-> code, error |-> error, warnings |-> <<>>,
     url |-> <<>>, port |-> port]
Success(op, id, url, warnings, port) ==
    [op |-> op, id |-> id, code |-> 200, error |-> "", warnings |-> warnings,
     url |-> url, port |-> port]

IdleDel == [id |-> 0, pc |-> "idle", container |-> 0, hostPort |-> 0,
            buildDir |-> FALSE, errors |-> <<>>]

\* a slot that holds no suspended read request; `url` is the url of the
\* deployment object the handler holds a reference to
IdleRead == [op |-> "none", id |-> 0, pc |-> "idle", container |-> 0, url |-> <<>>]
NoReads == [s \in 1..MaxReads |-> IdleRead]

\* remove key k from function f
Drop(f, k) == [x \in DOMAIN f \ {k} |-> f[x]]

\* line 331: waitForContainer has been called and is at the top of its loop
ProbeStart == [i |-> 0, pc |-> "inspect", gets |-> 0, delay |-> 0]

(***************************************************************************)
(* Progress events (lines 236-242, 417-423, 539-545).                      *)
(***************************************************************************)
\* percentages in which the start of the container is announced below its
\* creation
PercentBands(step) ==
    CASE step = "Pulling image..." -> 20
      [] step = "pull event" -> 30
      [] step = "Creating container..." -> 60
      [] step = "Starting container..." -> 50
      [] step = "Container failed to start" -> 100
      [] step = "Container running successfully!" -> 90
      [] step = "Cloning repository..." -> 10
      [] step = "Building image..." -> 30
      [] step = "build event" -> 40
      [] step = "Building image from Dockerfile..." -> 20

\* the percentage each sendProgress call of the creation handlers passes
\* (lines 244, 256, 261, 275, 283, 308; 425, 429, 441; 547, 562); "pull
\* event" and "build event" stand for the status lines of the engine
Percent(step) ==
    CASE step = "Pulling image..." -> 20
      [] step = "pull event" -> 30
      [] step = "Creating container..." -> 60
      [] step = "Starting container..." -> 80
      [] step = "Container failed to start" -> 100
      [] step = "Container running successfully!" -> 90
      [] step = "Cloning repository..." -> 10
      [] step = "Building image..." -> 30
      [] step = "build event" -> 40
      [] step = "Building image from Dockerfile..." -> 20

\* the message of line 239
Message(deployId, step, progress) ==
    [type |-> "progress", deployId |-> deployId, step |-> step, progress |-> progress]

\* a broadcast that does not look at readyState
sendToAll(cl, deployId, step, progress) ==
    [c \in DOMAIN cl |->
        [cl[c] EXCEPT !.got = Append(@, Message(deployId, step, progress))]]

\* lines 236-242: client.send to every client whose readyState is OPEN
sendProgress(cl, deployId, step, progress) ==
    [c \in DOMAIN cl |->
        IF cl[c].readyState = "OPEN"
        THEN [cl[c] EXCEPT !.got = Append(@, Message(deployId, step, progress))]
        ELSE cl[c]]

Observers == 1..MaxObservers

\* the creation sequence `req` has issued one more event
Issued(req, step) ==
    [req EXCEPT !.events = Append(@, [step |-> step, progress |-> Percent(step)])]

LocalUrl(port) == <<"http://localhost:", port>>
\* A tunnel url is `https://<name>.trycloudflare.com`.  Line 168 takes any
\* name of [a-z0-9-]+ that cloudflared prints.  A name is modelled as a
\* word and the id of the call it was printed for, the two kinds of word
\* being a name without and a name with the text 'localhost'.
TunnelNames(id) == {<<"quick-", id>>, <<"localhost-", id>>}
TunnelUrl(name) == <<"https://", name, ".trycloudflare.com">>
TunnelUrls(id) == {TunnelUrl(name) : name \in TunnelNames(id)}
\* the promise of createPublicTunnel resolved to null
NoUrl == <<>>

\* the ids of the records that carry a public address
Public(deps) == {d \in DOMAIN deps : deps[d].hasPublicUrl}

\* server.listen (line 951): startup is over and requests are served
Listening == [pc |-> "listening", row |-> 0, todo |-> {}]

Init ==
    /\ deployments = Empty
    /\ usedPorts = {}
    /\ tunnels = Empty
    /\ db \in BOOLEAN
    /\ MAX_DEPLOYMENTS \in 0..MaxLimit
    /\ boot = Listening
    /\ published = {}
    /\ table = Empty
    /\ containers = Empty
    /\ dirs = {}
    /\ cleanups = {}
    /\ proc = Empty
    /\ tcall = Empty
    /\ probing = Empty
    /\ reqs = Empty
    /\ dels = [s \in 1..MaxDeletes |-> IdleDel]
    /\ nextId = 1
    /\ clients = Empty
    /\ reads = NoReads
    /\ resp = NoResp

(***************************************************************************)
(* Git repository validation.                                              *)
(***************************************************************************)
\* [\w\.-]
WordChars == Digits \cup Letters \cup {"_", ".", "-"}

Prefixed(s, pre) == Len(s) >= Len(pre) /\ SubSeq(s, 1, Len(pre)) = pre

\* ([\w\.-]+\/)*[\w\.-]+(\.git)?$ from position `from`: non-empty runs of
\* word characters separated by single slashes.
PathFrom(s, from) ==
    /\ from <= Len(s)
    /\ AllIn(s, from, Len(s), WordChars \cup {"/"})
    /\ s[from] # "/" /\ s[Len(s)] # "/"
    /\ \A i \in from..(Len(s) - 1) : ~(s[i] = "/" /\ s[i + 1] = "/")

\* [\w\.-]+[\/:]... after a prefix of length n
HostAndPath(s, n) ==
    \E k \in (n + 2)..(Len(s) - 1) :
        /\ s[k] \in {"/", ":"}
        /\ AllIn(s, n + 1, k - 1, WordChars)
        /\ PathFrom(s, k + 1)

\* /^(https?:\/\/|git@)[\w\.-]+[\/:]([\w\.-]+\/)*[\w\.-]+(\.git)?$/
repoRegex(s) ==
    \/ Prefixed(s, <<"h", "t", "t", "p", ":", "/", "/">>) /\ HostAndPath(s, 7)
    \/ Prefixed(s, <<"h", "t", "t", "p", "s", ":", "/", "/">>) /\ HostAndPath(s, 8)
    \/ Prefixed(s, <<"g", "i", "t", "@">>) /\ HostAndPath(s, 4)

MaxRepoLen == 512
validateGitRepo(repo) ==
    /\ Len(repo) > 0
    /\ repoRegex(repo)
    /\ Len(repo) < MaxRepoLen

Repos == { <<"g", "i", "t", "@", "h", ":", "u", "/", "r">>,
           <<"h", "t", "t", "p", ":", "/", "/", "h">>,
           <<>> }

(***************************************************************************)
(* The deployment object built by a creation handler.                      *)
(***************************************************************************)
Deployment(id, type, source, port, url, buildDir) ==
    [id |-> id, url |-> url, localUrl |-> LocalUrl(port), container |-> id,
     status |-> "running", type |-> type, source |-> source,
     hasPublicUrl |-> (url # LocalUrl(port)), hostPort |-> port,
     buildDir |-> buildDir]

Request(kind, source, port) ==
    [kind |-> kind, pc |-> "create", hostPort |-> port, source |-> source,
     upd |-> FALSE, events |-> <<>>]

\* The event loop goes on to its next callback: no 'error' event without a
\* listener (lines 147-189) is waiting for the next tick, which comes before
\* every other callback and ends the process.
Running == \A id \in DOMAIN tcall : tcall[id].promise # "rejected"

\* Another container that is running with the same host port bound.
PortBound(cid) ==
    \E c \in DOMAIN containers \ {cid} :
        containers[c].state = "running" /\ containers[c].port = containers[cid].port

(***************************************************************************)
(* The catch block of a creation handler (lines 379-386, 504-519,          *)
(* 609-624, 768-774): release the port, remove the build directory of a    *)
(* git request if it exists (rmSync may throw, which is logged), respond   *)
(* 500 with the error's message.                                           *)
(***************************************************************************)
Catch(id, error) ==
    /\ usedPorts' = releasePort(usedPorts, reqs[id].hostPort)
    /\ IF reqs[id].kind = "git" /\ id \in dirs
       THEN \E removed \in BOOLEAN : dirs' = IF removed THEN dirs \ {id} ELSE dirs
       ELSE dirs' = dirs
    /\ reqs' = Drop(reqs, id)
    /\ resp' = Response(reqs[id].kind, id, 500, error, reqs[id].hostPort)

(***************************************************************************)
(* POST /api/deploy/docker (lines 216-387).                                *)
(***************************************************************************)
\* lines 217-247: validation, admission, id, port, up to `await docker.pull`
DeployDocker(ids, images, ports) ==
    \E image \in images, appPort \in ports :
        /\ Running
        /\ boot.pc = "listening"
        /\ UNCHANGED reads
        /\ UNCHANGED <<deployments, tunnels, persisted, engine, tunnel, dels>>
        /\ \/ /\ ~validateDockerImage(image)
              /\ resp' = Response("docker", 0, 400, "Invalid Docker image name", 0)
              /\ UNCHANGED <<usedPorts, reqs, nextId, clients>>
           \/ /\ validateDockerImage(image) /\ ~validatePort(appPort)
              /\ resp' = Response("docker", 0, 400, "Invalid port number", 0)
              /\ UNCHANGED <<usedPorts, reqs, nextId, clients>>
           \/ /\ validateDockerImage(image) /\ validatePort(appPort)
              /\ checkDeploymentLimit(deployments, MAX_DEPLOYMENTS)
              /\ resp' = Response("docker", 0, 500, "Deployment limit reached", 0)
              /\ UNCHANGED <<usedPorts, reqs, nextId, clients>>
           \/ /\ validateDockerImage(image) /\ validatePort(appPort)
              /\ ~checkDeploymentLimit(deployments, MAX_DEPLOYMENTS)
              /\ nextId \in ids
              /\ nextId' = nextId + 1
              /\ \E port \in getRandomPort(usedPorts, LowDraws) :
                    \/ /\ port = NoPort
                       /\ resp' = Response("docker", nextId, 500,
                                           "Unable to find available port", 0)
                       /\ UNCHANGED <<usedPorts, reqs, clients>>
                    \/ /\ port # NoPort
                       /\ usedPorts' = usedPorts \cup {port}
                       /\ reqs' = (nextId :> [Issued(Request("docker", image, port),
                                                     "Pulling image...")
                                              EXCEPT !.pc = "pull"]) @@ reqs
                       /\ clients' = sendProgress(clients, nextId, "Pulling image...",
                                                  Percent("Pulling image..."))
                       /\ resp' = NoResp

\* lines 247-261: docker.pull returns its stream and followProgress reports
\* its end, and line 261 announces the creation of the container; or the
\* pull throws.  The handler then waits for docker.createContainer.
PullImage(id) ==
    /\ Running
    /\ id \in DOMAIN reqs /\ reqs[id].pc = "pull"
    /\ UNCHANGED reads
    /\ UNCHANGED <<deployments, tunnels, persisted, containers, cleanups, tunnel,
                   dels, nextId>>
    /\ \/ /\ reqs' = [reqs EXCEPT ![id] = [Issued(@, "Creating container...")
                                            EXCEPT !.pc = "create"]]
          /\ clients' = sendProgress(clients, id, "Creating container...",
                                     Percent("Creating container..."))
          /\ resp' = NoResp
          /\ UNCHANGED <<usedPorts, dirs>>
       \/ /\ Catch(id, "image or container creation failed")
          /\ UNCHANGED clients

\* lines 263, 431-453, 549-574, 727-745: docker.createContainer returns or
\* throws.  In the git, dockerfile and test handlers the build of the image
\* comes before it and its end changes nothing of the modelled state, so
\* there the awaits from the entry of the handler to createContainer are
\* one step, in which the build or createContainer may throw.
CreateContainer(id) ==
    /\ Running
    /\ UNCHANGED <<clients, reads>>
    /\ id \in DOMAIN reqs /\ reqs[id].pc = "create"
    /\ UNCHANGED <<deployments, tunnels, persisted, cleanups, tunnel, dels, nextId>>
    /\ \/ /\ containers' = (id :> [state |-> "created", port |-> reqs[id].hostPort])
                           @@ containers
          /\ reqs' = [reqs EXCEPT ![id].pc = "start"]
          /\ resp' = NoResp
          /\ UNCHANGED <<usedPorts, dirs>>
       \/ /\ Catch(id, "image or container creation failed")
          /\ UNCHANGED containers

(***************************************************************************)
(* createPublicTunnel (lines 143-202) and the code that waits for it.      *)
(***************************************************************************)
\* lines 147-164: cloudflared is spawned, the timeout armed and the promise
\* returned
Spawned(id, kind) ==
    /\ proc' = (id :> "alive") @@ proc
    /\ tcall' = (id :> [kind |-> kind, resolved |-> FALSE, promise |-> "pending",
                        timer |-> TRUE, url |-> NoUrl, update |-> "none"]) @@ tcall

\* lines 147-190: cloudflared cannot be spawned (ENOENT, EACCES): spawn
\* returns a child that has its pipes.  Node emits the 'error' event on the
\* next tick, before any other callback runs: the handler clears the
\* timeout and resolves the promise to null within this step.
SpawnFailed(id, kind) ==
    /\ proc' = proc
    /\ tcall' = (id :> [kind |-> kind, resolved |-> FALSE, promise |-> "null",
                        timer |-> FALSE, url |-> NoUrl, update |-> "none"]) @@ tcall

\* lines 147-183: the process is out of file descriptors (EMFILE, ENFILE):
\* spawn returns a child that has no stdout.  Line 183 throws inside the
\* executor of the promise, after line 158 armed the timeout and before
\* line 185 attached the 'error' listener: the promise is rejected, the
\* timeout stays armed, and the 'error' event which Node emits on the next
\* tick finds no listener.
SpawnBroken(id, kind) ==
    /\ proc' = proc
    /\ tcall' = (id :> [kind |-> kind, resolved |-> FALSE, promise |-> "rejected",
                        timer |-> TRUE, url |-> NoUrl, update |-> "none"]) @@ tcall

\* one of the three ways the spawn of a detached call (docker, git) ends;
\* lines 351 and 489 catch the rejection and log it
SpawnDetached(id, kind) ==
    \/ Spawned(id, kind)
    \/ SpawnFailed(id, kind)
    \/ SpawnBroken(id, kind)

Row(d) ==
    [id |-> d.id, url |-> d.url, localUrl |-> d.localUrl, container_id |-> d.container,
     status |-> d.status, type |-> d.type, source |-> d.source]

\* a continuation that writes the address into every record of the store
AttachAll(id, value) ==
    /\ resp' = NoResp
    /\ reqs' = reqs /\ table' = table
    /\ deployments' =
          IF value # NoUrl
          THEN [d \in DOMAIN deployments |->
                   [deployments[d] EXCEPT !.url = value, !.hasPublicUrl = TRUE]]
          ELSE deployments

\* lines 337-350 and 475-488: the detached continuation of a docker or git
\* request, run when the promise resolves to `value`, a url or null.  It
\* writes the address into the object of the store, which is also the object
\* that a handler suspended at its INSERT holds and reads at line 378.  The
\* UPDATE of lines 346 and 484 is only sent here, when `db` is set:
\* db.execute returns a promise nobody awaits.  TunnelData notes the
\* statement in tcall and UpdateRow carries it out.
Attach(id, value) ==
    /\ resp' = NoResp
    /\ table' = table
    /\ IF value # NoUrl /\ id \in DOMAIN deployments
       THEN /\ deployments' = [deployments EXCEPT ![id].url = value,
                                                  ![id].hasPublicUrl = TRUE]
            /\ reqs' = IF db /\ id \in DOMAIN reqs
                       THEN [reqs EXCEPT ![id].upd = TRUE]
                       ELSE reqs
       ELSE UNCHANGED <<deployments, reqs>>

\* lines 579-608 and 750-767: a dockerfile or test request resumes from
\* `await createPublicTunnel`, stores the record and responds
Resume(id, value) ==
    LET r == reqs[id]
        url == IF value # NoUrl THEN value ELSE LocalUrl(r.hostPort)
    IN  /\ deployments' = (id :> Deployment(id, r.kind, r.source, r.hostPort, url, FALSE))
                          @@ deployments
        /\ reqs' = Drop(reqs, id)
        /\ resp' = Success(r.kind, id, url, <<>>, r.hostPort)
        /\ table' = table

\* the promise of call `id` is settled with `value`: its continuation runs
Settle(id, value) ==
    IF tcall[id].kind \in {"docker", "git"} THEN Attach(id, value) ELSE Resume(id, value)

\* lines 166-181: checkForUrl sees the tunnel URL in the subprocess output.
\* Output written before the subprocess died can still be delivered after it.
TunnelData(id) ==
    /\ Running
    /\ UNCHANGED <<clients, reads>>
    /\ id \in DOMAIN tcall /\ id \in DOMAIN proc
    /\ ~tcall[id].resolved
    /\ \E name \in TunnelNames(id) :
          /\ tcall' = [tcall EXCEPT ![id].resolved = TRUE, ![id].timer = FALSE,
                                    ![id].promise = IF @ = "pending" THEN "url" ELSE @,
                                    ![id].url = TunnelUrl(name),
                                    \* lines 338-347, 476-485
                                    ![id].update =
                                        IF /\ tcall[id].promise = "pending"
                                           /\ tcall[id].kind \in {"docker", "git"}
                                           /\ id \in DOMAIN deployments
                                           /\ db
                                        THEN "sent" ELSE @]
          /\ tunnels' = (id :> [url |-> TunnelUrl(name), process |-> id]) @@ tunnels
          /\ IF tcall[id].promise = "pending"
             THEN Settle(id, TunnelUrl(name))
             ELSE resp' = NoResp /\ UNCHANGED <<deployments, reqs, table>>
    /\ published' = published \cup Public(deployments')
    /\ UNCHANGED <<usedPorts, db, MAX_DEPLOYMENTS, boot, engine, proc, probing, dels, nextId>>

\* lines 346 and 484: the UPDATE that the continuation of call `id` sent is
\* carried out.  The connection carries out its statements in the order they
\* were sent: the UPDATE was sent after the INSERT of the same deployment
\* (lines 368-372 store the record and send the INSERT in one segment) and
\* before its DELETE (lines 688-693 take the record out of the store and
\* send the DELETE in one segment).  It sets the url of the row when there
\* is one; when it is rejected, line 347 only logs.
UpdateRow(id) ==
    /\ id \in DOMAIN tcall /\ tcall[id].update = "sent"
    /\ ~(id \in DOMAIN reqs /\ reqs[id].pc = "insert")
    /\ tcall' = [tcall EXCEPT ![id].update = "none"]
    /\ \/ table' = IF id \in DOMAIN table
                    THEN [table EXCEPT ![id].url = tcall[id].url]
                    ELSE table
       \/ table' = table
    /\ resp' = NoResp
    /\ UNCHANGED <<store, db, MAX_DEPLOYMENTS, boot, published, engine, proc, probing,
                   reqs, dels, nextId, clients, reads>>

\* tunnelProcess.kill() (lines 161, 175): the subprocess is signalled; on a
\* child that was never spawned kill() returns false and does nothing
Killed(procs, id) == IF id \in DOMAIN procs THEN [procs EXCEPT ![id] = "dead"] ELSE procs

\* lines 158-164: TUNNEL_TIMEOUT elapsed
TunnelTimeout(id) ==
    /\ Running
    /\ UNCHANGED <<clients, reads>>
    /\ id \in DOMAIN tcall /\ tcall[id].timer
    /\ IF ~tcall[id].resolved
       THEN /\ proc' = Killed(proc, id)
            /\ tcall' = [tcall EXCEPT ![id].timer = FALSE,
                                      ![id].promise = IF @ = "pending" THEN "null" ELSE @]
            /\ IF tcall[id].promise = "pending"
               THEN Settle(id, NoUrl)
               ELSE resp' = NoResp /\ UNCHANGED <<deployments, reqs, table>>
       ELSE /\ tcall' = [tcall EXCEPT ![id].timer = FALSE]
            /\ resp' = NoResp
            /\ UNCHANGED <<proc, deployments, reqs, table>>
    /\ UNCHANGED <<usedPorts, tunnels, db, MAX_DEPLOYMENTS, boot, published, engine, probing, dels, nextId>>

\* lines 192-196: the subprocess exits by itself; the handler only logs
TunnelExit(id) ==
    /\ UNCHANGED <<clients, reads>>
    /\ id \in DOMAIN proc /\ proc[id] = "alive"
    /\ proc' = [proc EXCEPT ![id] = "dead"]
    /\ resp' = NoResp
    /\ UNCHANGED <<store, persisted, engine, tcall, probing, reqs, dels, nextId>>

\* lines 311-336: the detached waitForContainer of a docker request returns
\* (ready or not, which is only logged) and createPublicTunnel is called
ProbeDone(id) ==
    /\ Running
    /\ UNCHANGED <<clients, reads>>
    /\ id \in DOMAIN probing
    /\ probing' = Drop(probing, id)
    /\ SpawnDetached(id, "docker")
    /\ resp' = NoResp
    /\ UNCHANGED <<store, persisted, engine, reqs, dels, nextId>>

\* a continuation that provisions the tunnel only when the probe found the
\* container ready
ProbeEndsIfReady(id, ready) ==
    /\ probing' = Drop(probing, id)
    /\ IF ready THEN SpawnDetached(id, "docker")
       ELSE UNCHANGED <<proc, tcall>>

\* lines 321, 327, 331-336: waitForContainer returns `ready`; the `.then`
\* continuation logs a negative result and calls createPublicTunnel
ProbeEnds(id, ready) ==
    /\ probing' = Drop(probing, id)
    /\ SpawnDetached(id, "docker")

\* lines 312-327: the loop goes to its next iteration, or is over
ProbeNext(id) ==
    IF probing[id].i + 1 < maxAttempts
    THEN /\ probing' = [probing EXCEPT ![id].i = @ + 1, ![id].pc = "inspect",
                                       ![id].delay = 0]
         /\ UNCHANGED <<proc, tcall>>
    ELSE ProbeEnds(id, FALSE)

\* lines 314-319: inspect() of the container returns with an address and
\* axios.get is issued; or returns without an address (the container is not
\* running, or has none on the default network), which skips the attempt
\* and the sleep; or throws, which is caught
ProbeInspect(id) ==
    /\ Running
    /\ UNCHANGED <<clients, reads>>
    /\ id \in DOMAIN probing /\ probing[id].pc = "inspect"
    /\ \/ /\ id \in DOMAIN containers /\ containers[id].state = "running"
          /\ probing' = [probing EXCEPT ![id].pc = "get", ![id].gets = @ + 1]
          /\ UNCHANGED <<proc, tcall>>
       \/ /\ id \in DOMAIN containers
          /\ ProbeNext(id)
       \/ /\ probing' = [probing EXCEPT ![id].pc = "sleep", ![id].delay = ProbeDelay]
          /\ UNCHANGED <<proc, tcall>>
    /\ resp' = NoResp
    /\ UNCHANGED <<store, persisted, engine, reqs, dels, nextId>>

\* lines 318-325: axios.get answers and waitForContainer returns true; or it
\* fails or times out, which is caught: log, then sleep
ProbeGet(id) ==
    /\ Running
    /\ UNCHANGED <<clients, reads>>
    /\ id \in DOMAIN probing /\ probing[id].pc = "get"
    /\ \/ ProbeEnds(id, TRUE)
       \/ /\ probing' = [probing EXCEPT ![id].pc = "sleep", ![id].delay = ProbeDelay]
          /\ UNCHANGED <<proc, tcall>>
    /\ resp' = NoResp
    /\ UNCHANGED <<store, persisted, engine, reqs, dels, nextId>>

\* line 324: the sleep after a caught failure is over
ProbeSleep(id) ==
    /\ Running
    /\ UNCHANGED <<clients, reads>>
    /\ id \in DOMAIN probing /\ probing[id].pc = "sleep"
    /\ ProbeNext(id)
    /\ resp' = NoResp
    /\ UNCHANGED <<store, persisted, engine, reqs, dels, nextId>>

\* lines 250-258, 433-445, 554-566: followProgress reports a status line of
\* the pull (docker) or a non-empty output line of the build (git,
\* dockerfile) while the handler awaits the end of the stream; the pull of
\* the test handler (lines 731-740) reports nothing
StreamEvent(id) ==
    /\ Running
    /\ id \in DOMAIN reqs
    /\ UNCHANGED reads
    /\ reqs[id].kind \in {"docker", "git", "dockerfile"}
    /\ reqs[id].pc = IF reqs[id].kind = "docker" THEN "pull" ELSE "create"
    /\ LET step == IF reqs[id].kind = "docker" THEN "pull event" ELSE "build event"
           reported == {j \in 1..Len(reqs[id].events) : reqs[id].events[j].step = step}
       IN /\ Cardinality(reported) < MaxEvents
          /\ reqs' = [reqs EXCEPT ![id] = Issued(@, step)]
          /\ clients' = sendProgress(clients, id, step, Percent(step))
    /\ resp' = NoResp
    /\ UNCHANGED <<store, persisted, engine, tunnel, dels, nextId>>

(***************************************************************************)
(* The WebSocket server (lines 15, 880-884).                               *)
(***************************************************************************)
\* a client connects: the server adds its socket, OPEN, to wss.clients and
\* sends it nothing
Connect(c) ==
    /\ Running
    /\ boot.pc = "listening"
    /\ UNCHANGED reads
    /\ c \notin DOMAIN clients
    /\ clients' = (c :> [readyState |-> "OPEN", got |-> <<>>,
                         seen |-> [id \in DOMAIN reqs |-> Len(reqs[id].events)]])
                  @@ clients
    /\ resp' = NoResp
    /\ UNCHANGED <<store, persisted, engine, tunnel, reqs, dels, nextId>>

\* the connection closes: the socket is not OPEN any more
Close(c) ==
    /\ c \in DOMAIN clients /\ clients[c].readyState = "OPEN"
    /\ UNCHANGED reads
    /\ clients' = [clients EXCEPT ![c].readyState = "CLOSED"]
    /\ resp' = NoResp
    /\ UNCHANGED <<store, persisted, engine, tunnel, reqs, dels, nextId>>

(***************************************************************************)
(* container.start() returns (lines 273, 455, 576, 747) and the handler    *)
(* runs on to its next await.                                              *)
(***************************************************************************)
\* the engine starts the container: it exists and its host port is not
\* bound by another running container
Started(id) ==
    /\ id \in DOMAIN containers
    /\ ~PortBound(id)
    /\ containers' = [containers EXCEPT ![id].state = "running"]

StartContainer(id) ==
    /\ Running
    /\ id \in DOMAIN reqs /\ reqs[id].pc = "start"
    /\ UNCHANGED reads
    /\ UNCHANGED <<tunnels, db, MAX_DEPLOYMENTS, boot, published, probing, dels, nextId>>
    /\ \/ \* docker: on to the settle delay and container.inspect()
          /\ reqs[id].kind = "docker"
          /\ Started(id)
          /\ reqs' = [reqs EXCEPT ![id] = [Issued(@, "Starting container...")
                                           EXCEPT !.pc = "verify"]]
          /\ clients' = sendProgress(clients, id, "Starting container...",
                                     Percent("Starting container..."))
          /\ resp' = NoResp
          /\ UNCHANGED <<deployments, usedPorts, table, dirs, cleanups, proc, tcall>>
       \/ \* git (lines 457-503): store the record, start the tunnel detached,
          \* arm the build-directory cleanup, respond
          /\ reqs[id].kind = "git"
          /\ Started(id)
          /\ deployments' = (id :> Deployment(id, "git", reqs[id].source,
                                              reqs[id].hostPort,
                                              LocalUrl(reqs[id].hostPort), TRUE))
                            @@ deployments
          /\ SpawnDetached(id, "git")
          /\ cleanups' = IF id \in dirs THEN cleanups \cup {id} ELSE cleanups
          /\ resp' = Success("git", id, LocalUrl(reqs[id].hostPort), <<>>,
                             reqs[id].hostPort)
          /\ reqs' = Drop(reqs, id)
          /\ UNCHANGED <<usedPorts, table, dirs, clients>>
       \/ \* dockerfile, test (lines 579, 750): await createPublicTunnel
          /\ reqs[id].kind \in {"dockerfile", "test"}
          /\ Started(id)
          /\ Spawned(id, reqs[id].kind)
          /\ reqs' = [reqs EXCEPT ![id].pc = "tunnel"]
          /\ resp' = NoResp
          /\ UNCHANGED <<deployments, usedPorts, table, dirs, cleanups, clients>>
       \/ \* dockerfile, test: the spawn fails, the await yields null and the
          \* handler stores the record and responds (lines 581-608, 752-767)
          /\ reqs[id].kind \in {"dockerfile", "test"}
          /\ Started(id)
          /\ SpawnFailed(id, reqs[id].kind)
          /\ Resume(id, NoUrl)
          /\ UNCHANGED <<usedPorts, dirs, cleanups, clients>>
       \/ \* dockerfile, test: the call is rejected, the await throws into the
          \* catch block (lines 609-624, 768-774); the container stays
          /\ reqs[id].kind \in {"dockerfile", "test"}
          /\ Started(id)
          /\ SpawnBroken(id, reqs[id].kind)
          /\ Catch(id, "Cannot read properties of undefined (reading 'on')")
          /\ UNCHANGED <<deployments, table, cleanups, clients>>
       \/ \* container.start() throws
          /\ Catch(id, "start")
          /\ UNCHANGED <<deployments, table, containers, cleanups, proc, tcall, clients>>

\* lines 277-376: the settle delay is over and container.inspect() returns
DockerVerify(id) ==
    /\ Running
    /\ id \in DOMAIN reqs /\ reqs[id].pc = "verify"
    /\ UNCHANGED reads
    /\ UNCHANGED <<tunnels, persisted, containers, cleanups, proc, tcall, dels, nextId>>
    /\ \/ \* running: start the detached probe, store the record, insert the row
          /\ id \in DOMAIN containers /\ containers[id].state = "running"
          /\ probing' = (id :> ProbeStart) @@ probing
          /\ deployments' = (id :> Deployment(id, "docker", reqs[id].source,
                                              reqs[id].hostPort,
                                              LocalUrl(reqs[id].hostPort), FALSE))
                            @@ deployments
          /\ clients' = sendProgress(clients, id, "Container running successfully!",
                                     Percent("Container running successfully!"))
          /\ IF db
             THEN /\ reqs' = [reqs EXCEPT ![id] =
                                [Issued(@, "Container running successfully!")
                                 EXCEPT !.pc = "insert"]]
                  /\ resp' = NoResp
             ELSE /\ reqs' = Drop(reqs, id)
                  /\ resp' = Success("docker", id, LocalUrl(reqs[id].hostPort), <<>>,
                                     reqs[id].hostPort)
          /\ UNCHANGED <<usedPorts, dirs>>
       \/ \* not running (lines 281-289): release the port, fetch the logs
          /\ id \in DOMAIN containers /\ containers[id].state # "running"
          /\ usedPorts' = releasePort(usedPorts, reqs[id].hostPort)
          /\ reqs' = [reqs EXCEPT ![id] = [Issued(@, "Container failed to start")
                                           EXCEPT !.pc = "remove"]]
          /\ clients' = sendProgress(clients, id, "Container failed to start",
                                     Percent("Container failed to start"))
          /\ resp' = NoResp
          /\ UNCHANGED <<deployments, dirs, probing>>
       \/ \* container.inspect() throws
          /\ Catch(id, "inspect")
          /\ UNCHANGED <<deployments, probing, clients>>

\* lines 288-305: container.logs() returns or throws (ignored; it changes
\* nothing), then container.remove({force: true}) returns or throws (logged)
DockerFailRemove(id) ==
    /\ Running
    /\ UNCHANGED <<clients, reads>>
    /\ id \in DOMAIN reqs /\ reqs[id].pc = "remove"
    /\ \/ id \in DOMAIN containers /\ containers' = Drop(containers, id)
       \/ containers' = containers
    /\ reqs' = Drop(reqs, id)
    /\ resp' = Response("docker", id, 500, "Container failed to start",
                        reqs[id].hostPort)
    /\ UNCHANGED <<store, persisted, dirs, cleanups, tunnel, dels, nextId>>

\* lines 371-378: the INSERT returns, or throws into the catch block.  The
\* row holds the values the statement was sent with (line 372); the response
\* reads the url from the deployment object (line 378), which the detached
\* continuation may have written meanwhile.
DockerInsert(id) ==
    /\ Running
    /\ UNCHANGED <<clients, reads>>
    /\ id \in DOMAIN reqs /\ reqs[id].pc = "insert"
    /\ UNCHANGED <<deployments, tunnels, db, MAX_DEPLOYMENTS, boot, published, containers, cleanups, tunnel, dels, nextId>>
    /\ \/ /\ table' = (id :> Row(Deployment(id, "docker", reqs[id].source,
                                            reqs[id].hostPort,
                                            LocalUrl(reqs[id].hostPort), FALSE)))
                      @@ table
          /\ resp' = Success("docker", id,
                             IF reqs[id].upd THEN tcall[id].url
                             ELSE LocalUrl(reqs[id].hostPort),
                             <<>>, reqs[id].hostPort)
          /\ reqs' = Drop(reqs, id)
          /\ UNCHANGED <<usedPorts, dirs>>
       \/ Catch(id, "insert") /\ UNCHANGED table

(***************************************************************************)
(* POST /api/deploy/git (lines 390-520), up to `await docker.buildImage`.  *)
(* execSync('git clone') blocks, so the clone is part of this segment.     *)
(* The base directory deployments/ is made at startup (lines 85-91) and    *)
(* again by line 413 when it is missing.                                   *)
(***************************************************************************)
DeployGit(ids, repos, ports) ==
    \E repo \in repos, appPort \in ports :
        /\ Running
        /\ boot.pc = "listening"
        /\ UNCHANGED reads
        /\ UNCHANGED <<deployments, tunnels, persisted, containers, cleanups, tunnel, dels>>
        /\ \/ /\ ~validateGitRepo(repo)
              /\ resp' = Response("git", 0, 400, "Invalid Git repository URL", 0)
              /\ UNCHANGED <<usedPorts, dirs, reqs, nextId, clients>>
           \/ /\ validateGitRepo(repo) /\ ~validatePort(appPort)
              /\ resp' = Response("git", 0, 400, "Invalid port number", 0)
              /\ UNCHANGED <<usedPorts, dirs, reqs, nextId, clients>>
           \/ /\ validateGitRepo(repo) /\ validatePort(appPort)
              /\ checkDeploymentLimit(deployments, MAX_DEPLOYMENTS)
              /\ resp' = Response("git", 0, 500, "Deployment limit reached", 0)
              /\ UNCHANGED <<usedPorts, dirs, reqs, nextId, clients>>
           \/ /\ validateGitRepo(repo) /\ validatePort(appPort)
              /\ ~checkDeploymentLimit(deployments, MAX_DEPLOYMENTS)
              /\ nextId \in ids
              /\ nextId' = nextId + 1
              /\ \E port \in getRandomPort(usedPorts, LowDraws) :
                    \/ /\ port = NoPort
                       /\ resp' = Response("git", nextId, 500,
                                           "Unable to find available port", 0)
                       /\ UNCHANGED <<usedPorts, dirs, reqs, clients>>
                    \/ \* lines 412-414: the base directory is gone (no build
                       \* directory is left) and mkdirSync throws, before
                       \* any event is sent: the catch block releases the
                       \* port and finds no build directory
                       /\ port # NoPort
                       /\ dirs = {}
                       /\ usedPorts' = releasePort(usedPorts \cup {port}, port)
                       /\ resp' = Response("git", nextId, 500, "mkdir", port)
                       /\ UNCHANGED <<dirs, reqs, clients>>
                    \/ \* the clone succeeds
                       /\ port # NoPort
                       /\ usedPorts' = usedPorts \cup {port}
                       /\ dirs' = dirs \cup {nextId}
                       /\ reqs' = (nextId :> Issued(Issued(Request("git", repo, port),
                                                           "Cloning repository..."),
                                                    "Building image...")) @@ reqs
                       /\ clients' = sendProgress(
                                        sendProgress(clients, nextId,
                                                     "Cloning repository...",
                                                     Percent("Cloning repository...")),
                                        nextId, "Building image...",
                                        Percent("Building image..."))
                       /\ resp' = NoResp
                    \/ \* the clone throws: the catch block releases the port
                       \* and removes what the clone left, if rmSync succeeds
                       /\ port # NoPort
                       /\ usedPorts' = releasePort(usedPorts \cup {port}, port)
                       /\ \E left \in BOOLEAN :
                             dirs' = IF left THEN dirs \cup {nextId} ELSE dirs
                       /\ resp' = Response("git", nextId, 500, "clone", port)
                       /\ reqs' = reqs
                       /\ clients' = sendProgress(clients, nextId,
                                                  "Cloning repository...",
                                                  Percent("Cloning repository..."))

\* lines 491-501: the 5 s timer of a successful git request removes the
\* build directory (a failure is logged)
BuildDirCleanup(id) ==
    /\ Running
    /\ UNCHANGED <<clients, reads>>
    /\ id \in cleanups
    /\ cleanups' = cleanups \ {id}
    /\ \E removed \in BOOLEAN : dirs' = IF removed THEN dirs \ {id} ELSE dirs
    /\ resp' = NoResp
    /\ UNCHANGED <<store, persisted, containers, tunnel, reqs, dels, nextId>>

(***************************************************************************)
(* POST /api/deploy/dockerfile (lines 523-625), up to `await buildImage`.  *)
(***************************************************************************)
DeployDockerfile(ids, files) ==
    \E file \in files :
        /\ Running
        /\ boot.pc = "listening"
        /\ UNCHANGED reads
        /\ UNCHANGED <<deployments, tunnels, persisted, engine, tunnel, dels>>
        /\ \/ /\ checkDeploymentLimit(deployments, MAX_DEPLOYMENTS)
              /\ resp' = Response("dockerfile", 0, 500, "Deployment limit reached", 0)
              /\ UNCHANGED <<usedPorts, reqs, nextId, clients>>
           \/ /\ ~checkDeploymentLimit(deployments, MAX_DEPLOYMENTS) /\ ~file
              /\ resp' = Response("dockerfile", 0, 400, "No Dockerfile uploaded", 0)
              /\ UNCHANGED <<usedPorts, reqs, nextId, clients>>
           \/ /\ ~checkDeploymentLimit(deployments, MAX_DEPLOYMENTS) /\ file
              /\ nextId \in ids
              /\ nextId' = nextId + 1
              /\ \E port \in getRandomPort(usedPorts, LowDraws) :
                    \/ /\ port = NoPort
                       /\ resp' = Response("dockerfile", nextId, 500,
                                           "Unable to find available port", 0)
                       /\ UNCHANGED <<usedPorts, reqs, clients>>
                    \/ /\ port # NoPort
                       /\ usedPorts' = usedPorts \cup {port}
                       /\ reqs' = (nextId :> Issued(Request("dockerfile", <<"uploaded">>,
                                                            port),
                                                    "Building image from Dockerfile..."))
                                  @@ reqs
                       /\ clients' = sendProgress(clients, nextId,
                                                  "Building image from Dockerfile...",
                                                  Percent("Building image from Dockerfile..."))
                       /\ resp' = NoResp

(***************************************************************************)
(* POST /api/deploy/test (lines 717-775), up to `await docker.pull`.       *)
(***************************************************************************)
DeployTest(ids) ==
    /\ Running
    /\ UNCHANGED <<clients, reads>>
    /\ boot.pc = "listening"
    /\ UNCHANGED <<deployments, tunnels, persisted, engine, tunnel, dels>>
    /\ \/ /\ checkDeploymentLimit(deployments, MAX_DEPLOYMENTS)
          /\ resp' = Response("test", 0, 500, "Deployment limit reached", 0)
          /\ UNCHANGED <<usedPorts, reqs, nextId>>
       \/ /\ ~checkDeploymentLimit(deployments, MAX_DEPLOYMENTS)
          /\ nextId \in ids
          /\ nextId' = nextId + 1
          /\ \E port \in getRandomPort(usedPorts, LowDraws) :
                \/ /\ port = NoPort
                   /\ resp' = Response("test", nextId, 500,
                                       "Unable to find available port", 0)
                   /\ UNCHANGED <<usedPorts, reqs>>
                \/ /\ port # NoPort
                   /\ usedPorts' = usedPorts \cup {port}
                   /\ reqs' = (nextId :> Request("test", <<"nginx:alpine">>, port))
                              @@ reqs
                   /\ resp' = NoResp

(***************************************************************************)
(* DELETE /api/deploy/:id (lines 633-709).                                 *)
(***************************************************************************)
\* a lookup that misses only when the store is empty
storeEmpty(deps, id) == DOMAIN deps = {}

\* const deployment = deployments.get(id); if (!deployment) ...: TRUE when
\* the map has no record under id
notFound(deps, id) == id \notin DOMAIN deps

\* a close that leaves the subprocess as it is
leaveRunning(procs, tuns, id) == procs

\* tunnel.close() of the registered tunnel: tunnelProcess.kill()
closeTunnel(procs, tuns, id) ==
    IF id \in DOMAIN tuns
    THEN [procs EXCEPT ![tuns[id].process] = "dead"]
    ELSE procs

\* a registry that keeps the entry
keepTunnel(tuns, id) == tuns

\* tunnels.delete(id) after the close
deleteTunnel(tuns, id) == IF id \in DOMAIN tuns THEN Drop(tuns, id) ELSE tuns

\* a store that keeps the record
keepRecord(deps, id) == deps

\* deployments.delete(id)
deleteRecord(deps, id) == IF id \in DOMAIN deps THEN Drop(deps, id) ELSE deps

\* the reads suspended on record `id` hold a reference to the object that
\* deployments.delete(id) takes out of the map; the object keeps the url it
\* has at that moment
Orphaned(rs, deps, id) ==
    [s \in DOMAIN rs |->
        IF rs[s].id = id /\ rs[s].pc # "idle" /\ id \in DOMAIN deps
        THEN [rs[s] EXCEPT !.url = deps[id].url]
        ELSE rs[s]]

\* the first slot of `slots` that holds no suspended deletion
FreeSlot(slots) == CHOOSE s \in slots :
                       /\ dels[s].pc = "idle"
                       /\ \A t \in slots : t < s => dels[t].pc # "idle"

\* lines 635-646: look the record up; 404 when absent, else container.stop()
DeleteStart(ids, slots) ==
    \E id \in ids :
        /\ Running
        /\ UNCHANGED <<clients, reads>>
        /\ boot.pc = "listening"
        /\ UNCHANGED <<store, persisted, engine, tunnel, reqs, nextId>>
        /\ \/ /\ notFound(deployments, id)
              /\ resp' = Response("delete", id, 404, "Deployment not found", 0)
              /\ dels' = dels
           \/ /\ ~notFound(deployments, id)
              /\ id \in DOMAIN deployments
              /\ \E s \in slots : dels[s].pc = "idle"
              /\ dels' = [dels EXCEPT ![FreeSlot(slots)] =
                             [id |-> id, pc |-> "stop",
                              container |-> deployments[id].container,
                              hostPort |-> deployments[id].hostPort,
                              buildDir |-> deployments[id].buildDir,
                              errors |-> <<>>]]
              /\ resp' = NoResp

\* lines 646-651: container.stop() returns, or throws (logged only)
DeleteStop(s) ==
    /\ Running
    /\ UNCHANGED <<clients, reads>>
    /\ dels[s].pc = "stop"
    /\ \/ /\ dels[s].container \in DOMAIN containers
          /\ containers[dels[s].container].state = "running"
          /\ containers' = [containers EXCEPT ![dels[s].container].state = "exited"]
       \/ containers' = containers
    /\ dels' = [dels EXCEPT ![s].pc = "remove"]
    /\ resp' = NoResp
    /\ UNCHANGED <<store, persisted, dirs, cleanups, tunnel, reqs, nextId>>

\* lines 658-698 as far as they run without an await, given the warnings
\* collected so far: close the tunnel, release the port, remove the build
\* directory, remove the record, then either start the DELETE or respond
DeleteCleanup(s, errors) ==
    LET d == dels[s] IN
    /\ UNCHANGED clients
    /\ proc' = closeTunnel(proc, tunnels, d.id)
    /\ tunnels' = deleteTunnel(tunnels, d.id)
    /\ usedPorts' = releasePort(usedPorts, d.hostPort)
    /\ deployments' = deleteRecord(deployments, d.id)
    /\ reads' = Orphaned(reads, deployments, d.id)
    /\ \E removed \in BOOLEAN :
          /\ dirs' = IF d.buildDir /\ d.id \in dirs /\ removed
                     THEN dirs \ {d.id} ELSE dirs
          /\ LET errs == IF d.buildDir /\ d.id \in dirs /\ ~removed
                         THEN Append(errors, "Build directory cleanup failed")
                         ELSE errors
             IN  IF db
                 THEN /\ dels' = [dels EXCEPT ![s].pc = "dbdelete", ![s].errors = errs]
                      /\ resp' = NoResp
                 ELSE /\ dels' = [dels EXCEPT ![s] = IdleDel]
                      /\ resp' = Success("delete", d.id, <<>>, errs, d.hostPort)

\* lines 651-698: container.remove({force: true}) returns or throws
DeleteRemove(s) ==
    /\ Running
    /\ UNCHANGED clients
    /\ dels[s].pc = "remove"
    /\ UNCHANGED <<persisted, cleanups, tcall, probing, reqs, nextId>>
    /\ \/ /\ dels[s].container \in DOMAIN containers
          /\ containers' = Drop(containers, dels[s].container)
          /\ DeleteCleanup(s, dels[s].errors)
       \/ /\ containers' = containers
          /\ DeleteCleanup(s, Append(dels[s].errors, "Container cleanup failed"))

\* lines 691-704: the DELETE returns or throws; respond.  An UPDATE of the
\* same row that was sent before the DELETE is carried out before it.
DeleteRow(s) ==
    /\ Running
    /\ UNCHANGED <<clients, reads>>
    /\ dels[s].pc = "dbdelete"
    /\ ~(dels[s].id \in DOMAIN tcall /\ tcall[dels[s].id].update = "sent")
    /\ UNCHANGED <<store, db, MAX_DEPLOYMENTS, boot, published, engine, tunnel, reqs, nextId>>
    /\ dels' = [dels EXCEPT ![s] = IdleDel]
    /\ \/ /\ table' = IF dels[s].id \in DOMAIN table THEN Drop(table, dels[s].id)
                      ELSE table
          /\ resp' = Success("delete", dels[s].id, <<>>, dels[s].errors,
                             dels[s].hostPort)
       \/ /\ table' = table
          /\ resp' = Success("delete", dels[s].id, <<>>,
                             Append(dels[s].errors, "Database deletion failed"),
                             dels[s].hostPort)

(***************************************************************************)
(* The read-only operations on one deployment (lines 778-868).  Each      *)
(* handler looks the record up and then awaits the container engine; the  *)
(* callbacks of other requests run while it is suspended.                 *)
(***************************************************************************)
\* the url of the deployment object a suspended read refers to
UrlOf(r) == IF r.id \in DOMAIN deployments THEN deployments[r.id].url ELSE r.url

\* the body of a read response: only the status handler spreads the
\* deployment object into it (lines 808-814); lines 787 and 857-864 send
\* no url
ReadBody(r) ==
    Success(r.op, r.id, IF r.op = "status" THEN UrlOf(r) ELSE <<>>, <<>>, 0)

\* lines 779-786, 795-802, 822-827: look the record up; 404 when absent,
\* else container.logs() (logs) or container.inspect() (status, fix-port)
ReadOp(op, id) ==
    /\ Running
    /\ UNCHANGED clients
    /\ boot.pc = "listening"
    /\ UNCHANGED <<store, persisted, engine, tunnel, reqs, dels, nextId>>
    /\ \/ /\ notFound(deployments, id)
          /\ resp' = Response(op, id, 404, "Deployment not found", 0)
          /\ reads' = reads
       \/ /\ ~notFound(deployments, id)
          /\ id \in DOMAIN deployments
          /\ \E s \in DOMAIN reads :
                /\ reads[s].pc = "idle"
                /\ reads' = [reads EXCEPT ![s] =
                                [op |-> op, id |-> id,
                                 pc |-> IF op = "logs" THEN "logs" ELSE "inspect",
                                 container |-> deployments[id].container,
                                 url |-> deployments[id].url]]
          /\ resp' = NoResp
       \/ \* deployment.container of a record that is not there throws into
          \* the catch block (lines 788-790, 815-817, 865-867)
          /\ ~notFound(deployments, id)
          /\ id \notin DOMAIN deployments
          /\ resp' = Response(op, id, 500, "TypeError", 0)
          /\ reads' = reads

\* lines 802-818, 827-830 and the catch blocks: container.inspect() returns
\* and the status handler responds or the fix-port handler goes on to
\* container.logs(); or it throws and the catch block responds 500
ReadInspect(s) ==
    /\ Running
    /\ UNCHANGED clients
    /\ reads[s].pc = "inspect"
    /\ UNCHANGED <<store, persisted, engine, tunnel, reqs, dels, nextId>>
    /\ \/ /\ reads[s].container \in DOMAIN containers
          /\ IF reads[s].op = "status"
             THEN /\ reads' = [reads EXCEPT ![s] = IdleRead]
                  /\ resp' = ReadBody(reads[s])
             ELSE /\ reads' = [reads EXCEPT ![s].pc = "logs"]
                  /\ resp' = NoResp
       \/ /\ reads' = [reads EXCEPT ![s] = IdleRead]
          /\ resp' = Response(reads[s].op, reads[s].id, 500, "engine", 0)

\* lines 786-790, 830-868: container.logs() returns and the handler
\* responds, or it throws and the catch block responds 500
ReadLogs(s) ==
    /\ Running
    /\ UNCHANGED clients
    /\ reads[s].pc = "logs"
    /\ UNCHANGED <<store, persisted, engine, tunnel, reqs, dels, nextId>>
    /\ reads' = [reads EXCEPT ![s] = IdleRead]
    /\ \/ /\ reads[s].container \in DOMAIN containers
          /\ resp' = ReadBody(reads[s])
       \/ resp' = Response(reads[s].op, reads[s].id, 500, "engine", 0)

\* GET /api/logs/:id, GET /api/deploy/:id/status and POST
\* /api/deploy/:id/fix-port arrive: the segment up to the first await
GetLogs == \E id \in Ids : ReadOp("logs", id)
GetStatus == \E id \in Ids : ReadOp("status", id)
FixPort == \E id \in Ids : ReadOp("fix-port", id)

(***************************************************************************)
(* The container engine outside the handlers.                              *)
(***************************************************************************)
\* the workload of a running container exits
ContainerExit(c) ==
    /\ UNCHANGED <<clients, reads>>
    /\ c \in DOMAIN containers /\ containers[c].state = "running"
    /\ containers' = [containers EXCEPT ![c].state = "exited"]
    /\ resp' = NoResp
    /\ UNCHANGED <<store, persisted, dirs, cleanups, tunnel, reqs, dels, nextId>>

\* a container is removed outside the system
ExternalRemove(c) ==
    /\ UNCHANGED <<clients, reads>>
    /\ c \in DOMAIN containers
    /\ containers' = Drop(containers, c)
    /\ resp' = NoResp
    /\ UNCHANGED <<store, persisted, dirs, cleanups, tunnel, reqs, dels, nextId>>

(***************************************************************************)
(* Startup (lines 945-958): initDB, cleanupOrphanedTunnels,                *)
(* loadDeploymentsFromDB (lines 887-928), then server.listen.              *)
(***************************************************************************)
\* the pieces of text a modelled url is made of: a local url is a text and
\* a port, a tunnel url a text, a name (a word and a number) and a text
Texts(url) == IF Len(url) = 2 THEN {url[1]} ELSE {url[1], url[2][1], url[3]}

\* line 911: row.url.includes('localhost') searches the whole string:
\* 'localhost' occurs in these two of the pieces of text
includesLocalhost(url) == Texts(url) \cap {"http://localhost:", "localhost-"} # {}

\* a reconciliation that reads State.Running the wrong way round
RehydratedInverted(row, running) ==
    [id |-> row.id, url |-> row.url, localUrl |-> row.localUrl,
     container |-> row.container_id,
     status |-> IF running THEN "stopped" ELSE "running",
     type |-> row.type, source |-> row.source,
     hasPublicUrl |-> (row.url # <<>> /\ ~includesLocalhost(row.url)),
     hostPort |-> Null, buildDir |-> FALSE]

\* a reconciliation that does not copy the container id of the row
RehydratedNoHandle(row, running) ==
    [id |-> row.id, url |-> row.url, localUrl |-> row.localUrl,
     container |-> Null,
     status |-> IF running THEN "running" ELSE "stopped",
     type |-> row.type, source |-> row.source,
     hasPublicUrl |-> (row.url # <<>> /\ ~includesLocalhost(row.url)),
     hostPort |-> Null, buildDir |-> FALSE]

\* lines 903-913: the deployment object built from a row and the running
\* state the engine reports; it has no hostPort and no buildDir
Rehydrated(row, running) ==
    [id |-> row.id, url |-> row.url, localUrl |-> row.localUrl,
     container |-> row.container_id,
     status |-> IF running THEN "running" ELSE "stopped",
     type |-> row.type, source |-> row.source,
     hasPublicUrl |-> (row.url # <<>> /\ ~includesLocalhost(row.url)),
     hostPort |-> Null, buildDir |-> FALSE]

\* the for loop of line 897 goes on to the rows not yet visited: it awaits
\* the inspection of one of them, or the function returns and the server
\* listens
LoopOn(todo) ==
    IF todo = {}
    THEN boot' = Listening
    ELSE \E r \in todo : boot' = [pc |-> "inspect", row |-> r, todo |-> todo \ {r}]

\* the process has ended and nothing has started it again
Exited == [pc |-> "exited", row |-> 0, todo |-> {}]

\* lines 147-189: the 'error' event of the child of a rejected call is
\* emitted and has no listener (line 185 was never reached).  The process
\* has no handler for uncaught exceptions: it ends, all that was in memory
\* is gone and the sockets of the observers close.  The cloudflared
\* processes it had spawned run on.
Crash(id) ==
    /\ id \in DOMAIN tcall /\ tcall[id].promise = "rejected"
    /\ deployments' = Empty /\ usedPorts' = {} /\ tunnels' = Empty
    /\ db' = FALSE
    /\ boot' = Exited
    /\ tcall' = Empty /\ probing' = Empty /\ cleanups' = {}
    /\ reqs' = Empty /\ reads' = NoReads
    /\ clients' = [c \in DOMAIN clients |-> [clients[c] EXCEPT !.readyState = "CLOSED"]]
    /\ dels' = [s \in 1..MaxDeletes |-> IdleDel]
    /\ resp' = NoResp
    /\ UNCHANGED <<MAX_DEPLOYMENTS, published, table, containers, dirs, proc, nextId>>

\* The process is stopped from outside, at any point of its startup or of
\* its service (it installs no signal handler): all that was in memory
\* (lines 29-36, 94) is gone and the sockets of the observers close;
\* the containers, the build directories, the table and the cloudflared
\* processes stay.
Stop ==
    /\ boot.pc # "exited"
    /\ deployments' = Empty /\ usedPorts' = {} /\ tunnels' = Empty
    /\ db' = FALSE
    /\ boot' = Exited
    /\ tcall' = Empty /\ probing' = Empty /\ cleanups' = {}
    /\ reqs' = Empty /\ reads' = NoReads
    /\ clients' = [c \in DOMAIN clients |-> [clients[c] EXCEPT !.readyState = "CLOSED"]]
    /\ dels' = [s \in 1..MaxDeletes |-> IdleDel]
    /\ resp' = NoResp
    /\ UNCHANGED <<MAX_DEPLOYMENTS, published, table, containers, dirs, proc, nextId>>

\* lines 29-36, 94 and 945: the process is started again.  Its maps are empty,
\* `db` is undefined, no socket is open, and initDB is at its first
\* attempt; what the earlier run left outside the process is as it was.
Start ==
    /\ boot.pc = "exited"
    /\ boot' = [pc |-> "connect", retries |-> Retries, delay |-> FirstDelay]
    /\ clients' = Empty
    /\ resp' = NoResp
    /\ UNCHANGED <<store, db, MAX_DEPLOYMENTS, published, table, engine, tunnel, reqs,
                   dels, nextId, reads>>

\* lines 68-75: the catch block of one attempt: count it, give up after the
\* last one, else go to sleep
AttemptFailed ==
    boot' = IF boot.retries - 1 = 0
            THEN [pc |-> "cleanup", ok |-> FALSE]
            ELSE [pc |-> "wait", retries |-> boot.retries - 1, delay |-> boot.delay]

\* lines 41-75: one pass of the loop up to its return or its sleep.
\* createConnection returns and both statements succeed; or createConnection
\* throws, and db keeps what it held; or createConnection returns, which
\* assigns db (line 43), and SELECT 1 or CREATE TABLE throws
InitDBAttempt ==
    /\ UNCHANGED <<clients, reads>>
    /\ boot.pc = "connect"
    /\ \/ db' = TRUE /\ boot' = [pc |-> "cleanup", ok |-> TRUE]
       \/ db' = db /\ AttemptFailed
       \/ db' = TRUE /\ AttemptFailed
    /\ resp' = NoResp
    /\ UNCHANGED <<store, MAX_DEPLOYMENTS, published, table, engine, tunnel, reqs, dels,
                   nextId>>

\* Math.min(delay * 1.5, 15000), computed in halves of a millisecond
NextDelay(delay) ==
    (IF delay * 3 <= 2 * MaxDelay THEN delay * 3 ELSE 2 * MaxDelay) \div 2

\* lines 77-78: the sleep is over; the delay of the next one is computed
InitDBWait ==
    /\ UNCHANGED <<clients, reads>>
    /\ boot.pc = "wait"
    /\ boot' = [pc |-> "connect", retries |-> boot.retries,
                delay |-> NextDelay(boot.delay)]
    /\ resp' = NoResp
    /\ UNCHANGED <<store, db, MAX_DEPLOYMENTS, published, table, engine, tunnel, reqs,
                   dels, nextId>>

\* a startup chain that listens right after the orphan cleanup and loads
\* nothing
CleanupThenListen ==
    /\ UNCHANGED <<clients, reads>>
    /\ boot.pc = "cleanup"
    /\ \/ proc' = [t \in DOMAIN proc |-> "dead"]
       \/ proc' = proc
    /\ boot' = Listening
    /\ resp' = NoResp
    /\ UNCHANGED <<store, db, MAX_DEPLOYMENTS, published, table, engine, tcall, probing,
                   reqs, dels, nextId>>

\* lines 931-943 and 947: pkill -9 cloudflared (taskkill on win32) kills
\* every cloudflared process; or the command is missing or fails, which
\* `|| true` or the catch block ignores, and the processes run on
CleanupOrphanedTunnels ==
    /\ UNCHANGED <<clients, reads>>
    /\ boot.pc = "cleanup"
    /\ \/ proc' = [t \in DOMAIN proc |-> "dead"]
       \/ proc' = proc
    /\ boot' = [pc |-> "select", row |-> 0, todo |-> {}]
    /\ resp' = NoResp
    /\ UNCHANGED <<store, db, MAX_DEPLOYMENTS, published, table, engine, tcall, probing,
                   reqs, dels, nextId>>

\* lines 888-896, 925-927: without a connection nothing is loaded; else the
\* SELECT returns the rows, or throws into the outer catch
LoadSelect ==
    /\ UNCHANGED <<clients, reads>>
    /\ boot.pc = "select"
    /\ \/ ~db /\ boot' = Listening
       \/ db /\ LoopOn(DOMAIN table)
       \/ db /\ boot' = Listening
    /\ resp' = NoResp
    /\ UNCHANGED <<store, db, MAX_DEPLOYMENTS, published, table, engine, tunnel, reqs,
                   dels, nextId>>

\* lines 899-920: container.inspect() of the row returns and the record is
\* stored, or it throws and the DELETE of the row is awaited
LoadInspect ==
    /\ UNCHANGED <<clients, reads>>
    /\ boot.pc = "inspect"
    /\ \/ /\ boot.row \in DOMAIN table
          /\ table[boot.row].container_id \in DOMAIN containers
          /\ deployments' =
                (boot.row :> Rehydrated(table[boot.row],
                                        containers[table[boot.row].container_id].state
                                            = "running"))
                @@ deployments
          /\ LoopOn(boot.todo)
       \/ /\ deployments' = deployments
          /\ boot' = [boot EXCEPT !.pc = "delete"]
    /\ published' = published \cup Public(deployments')
    /\ resp' = NoResp
    /\ UNCHANGED <<usedPorts, tunnels, db, MAX_DEPLOYMENTS, table, engine, tunnel,
                   reqs, dels, nextId>>

\* lines 920-927: the DELETE of the row returns and the loop goes on, or it
\* throws into the outer catch, which ends the function
LoadDelete ==
    /\ UNCHANGED <<clients, reads>>
    /\ boot.pc = "delete"
    /\ \/ /\ table' = IF boot.row \in DOMAIN table THEN Drop(table, boot.row) ELSE table
          /\ LoopOn(boot.todo)
       \/ /\ table' = table
          /\ boot' = Listening
    /\ resp' = NoResp
    /\ UNCHANGED <<store, db, MAX_DEPLOYMENTS, published, engine, tunnel, reqs, dels,
                   nextId>>

\* The well-formed request bodies of the sample inputs.
GoodImages == {image \in Images : validateDockerImage(image)}
GoodRepos == {repo \in Repos : validateGitRepo(repo)}
GoodPorts == {port \in AppPorts : validatePort(port)}

(***************************************************************************)
(* One deployment of any kind from a well-formed request, its tunnel, and *)
(* the deletions of it, two of which can be in progress at a time.        *)
(***************************************************************************)
Next ==
    \/ DeployDocker(Solo, GoodImages, GoodPorts)
    \/ DeployGit(Solo, GoodRepos, GoodPorts)
    \/ DeployDockerfile(Solo, {TRUE})
    \/ DeployTest(Solo)
    \/ DeleteStart(DOMAIN deployments, 1..MaxDeletes)
    \/ \E id \in Solo : PullImage(id)
    \/ \E id \in Solo : CreateContainer(id)
    \/ \E id \in Solo : StartContainer(id)
    \/ \E id \in Solo : Crash(id)
    \/ \E id \in Solo : DockerVerify(id)
    \/ \E id \in Solo : DockerFailRemove(id)
    \/ \E id \in Solo : DockerInsert(id)
    \/ \E id \in Solo : ProbeDone(id)
    \/ \E id \in Solo : TunnelData(id)
    \/ \E id \in Solo : UpdateRow(id)
    \/ \E id \in Solo : TunnelTimeout(id)
    \/ \E id \in Solo : TunnelExit(id)
    \/ \E id \in Solo : BuildDirCleanup(id)
    \/ \E s \in 1..MaxDeletes : DeleteStop(s)
    \/ \E s \in 1..MaxDeletes : DeleteRemove(s)
    \/ \E s \in 1..MaxDeletes : DeleteRow(s)
    \/ \E c \in Solo : ContainerExit(c)
    \/ \E c \in Solo : ExternalRemove(c)

Spec == Init /\ [][Next]_vars

\* lines 158-164: a timer armed with setTimeout and not cleared fires; the
\* event loop runs its callback
SpecFair == Spec /\ \A id \in Solo : WF_vars(TunnelTimeout(id))

(***************************************************************************)
(* Concurrent image deployments: MaxIds creation requests of well-formed  *)
(* bodies interleave with each other and with one deletion at a time.     *)
(* The detached tunnel chain of a deployment (ProbeDone and the tunnel    *)
(* events) writes neither usedPorts nor the key set of deployments; its   *)
(* steps are those of Spec and are not repeated here.                     *)
(***************************************************************************)
NextDocker ==
    \/ DeployDocker(Ids, GoodImages, GoodPorts)
    \/ DeleteStart(DOMAIN deployments, {1})
    \/ \E id \in Ids : PullImage(id)
    \/ \E id \in Ids : CreateContainer(id)
    \/ \E id \in Ids : StartContainer(id)
    \/ \E id \in Ids : DockerVerify(id)
    \/ \E id \in Ids : DockerFailRemove(id)
    \/ \E id \in Ids : DockerInsert(id)
    \/ DeleteStop(1)
    \/ DeleteRemove(1)
    \/ DeleteRow(1)
    \/ \E c \in Ids : ContainerExit(c)
    \/ \E c \in Ids : ExternalRemove(c)

SpecDocker == Init /\ [][NextDocker]_vars

(***************************************************************************)
(* Lookups: the operations on one deployment id, asked of ids that are    *)
(* known and of ids that are not, around the life of one image deployment.*)
(***************************************************************************)
NextLookup ==
    \/ DeployDocker(Solo, GoodImages, GoodPorts)
    \/ DeleteStart(Ids, {1})
    \/ GetLogs
    \/ GetStatus
    \/ FixPort
    \/ \E s \in 1..MaxReads : ReadInspect(s)
    \/ \E s \in 1..MaxReads : ReadLogs(s)
    \/ \E id \in Solo : PullImage(id)
    \/ \E id \in Solo : CreateContainer(id)
    \/ \E id \in Solo : StartContainer(id)
    \/ \E id \in Solo : DockerVerify(id)
    \/ \E id \in Solo : DockerFailRemove(id)
    \/ \E id \in Solo : DockerInsert(id)
    \/ DeleteStop(1)
    \/ DeleteRemove(1)
    \/ DeleteRow(1)
    \/ \E c \in Solo : ContainerExit(c)
    \/ \E c \in Solo : ExternalRemove(c)

SpecLookup == Init /\ [][NextLookup]_vars

(***************************************************************************)
(* Restart: image deployments are created, the process is restarted and   *)
(* loadDeploymentsFromDB reconciles the table with the container engine.  *)
(***************************************************************************)
NextRestart ==
    \/ DeployDocker(Ids, GoodImages, GoodPorts)
    \/ \E id \in Ids : PullImage(id)
    \/ \E id \in Ids : CreateContainer(id)
    \/ \E id \in Ids : StartContainer(id)
    \/ \E id \in Ids : Crash(id)
    \/ \E id \in Ids : DockerVerify(id)
    \/ \E id \in Ids : DockerFailRemove(id)
    \/ \E id \in Ids : DockerInsert(id)
    \/ \E c \in Ids : ContainerExit(c)
    \/ \E c \in Ids : ExternalRemove(c)
    \/ \E id \in Ids : ProbeDone(id)
    \/ \E id \in Ids : TunnelData(id)
    \/ \E id \in Ids : UpdateRow(id)
    \/ \E id \in Ids : TunnelTimeout(id)
    \/ \E id \in Ids : TunnelExit(id)
    \/ Stop
    \/ Start
    \/ InitDBAttempt
    \/ InitDBWait
    \/ CleanupOrphanedTunnels
    \/ LoadSelect
    \/ LoadInspect
    \/ LoadDelete

SpecRestart == Init /\ [][NextRestart]_vars

(***************************************************************************)
(* Reload: one image deployment is created, deleted, and the process is   *)
(* restarted and reconciled, in any order.                                *)
(***************************************************************************)
NextReload ==
    \/ DeployDocker(Solo, GoodImages, GoodPorts)
    \/ DeleteStart(DOMAIN deployments, {1})
    \/ \E id \in Solo : PullImage(id)
    \/ \E id \in Solo : CreateContainer(id)
    \/ \E id \in Solo : StartContainer(id)
    \/ \E id \in Solo : Crash(id)
    \/ \E id \in Solo : DockerVerify(id)
    \/ \E id \in Solo : DockerFailRemove(id)
    \/ \E id \in Solo : DockerInsert(id)
    \/ DeleteStop(1)
    \/ DeleteRemove(1)
    \/ DeleteRow(1)
    \/ \E c \in Solo : ContainerExit(c)
    \/ \E c \in Solo : ExternalRemove(c)
    \/ \E id \in Solo : ProbeDone(id)
    \/ \E id \in Solo : TunnelData(id)
    \/ \E id \in Solo : UpdateRow(id)
    \/ \E id \in Solo : TunnelTimeout(id)
    \/ \E id \in Solo : TunnelExit(id)
    \/ Stop
    \/ Start
    \/ InitDBAttempt
    \/ InitDBWait
    \/ CleanupOrphanedTunnels
    \/ LoadSelect
    \/ LoadInspect
    \/ LoadDelete

SpecReload == Init /\ [][NextReload]_vars

(***************************************************************************)
(* releasePort (lines 109-114) on its own: called with every kind of      *)
(* argument on sets of allocated ports.                                   *)
(***************************************************************************)
\* ports getRandomPort can have put into usedPorts
SomePorts == PortBase..(PortBase + PortSpan - 1)
\* the arguments: an allocated or a free port of that range, a port that was
\* never allocated, and null
ReleaseArgs == SomePorts \cup {PortBase + PortSpan, Null}

InitPorts ==
    /\ deployments = Empty
    /\ usedPorts \in SUBSET SomePorts
    /\ tunnels = Empty
    /\ db \in BOOLEAN
    /\ MAX_DEPLOYMENTS \in 0..MaxLimit
    /\ boot = Listening
    /\ published = {}
    /\ table = Empty
    /\ containers = Empty
    /\ dirs = {}
    /\ cleanups = {}
    /\ proc = Empty
    /\ tcall = Empty
    /\ probing = Empty
    /\ reqs = Empty
    /\ dels = [s \in 1..MaxDeletes |-> IdleDel]
    /\ nextId = 1
    /\ clients = Empty
    /\ reads = NoReads
    /\ resp = NoResp

\* one call releasePort(port); resp records the call and its argument
Release(port) ==
    /\ UNCHANGED <<clients, reads>>
    /\ usedPorts' = releasePort(usedPorts, port)
    /\ resp' = Response("releasePort", 0, 0, "", port)
    /\ UNCHANGED <<deployments, tunnels, persisted, engine, tunnel, reqs, dels, nextId>>

NextPorts == \E port \in ReleaseArgs : Release(port)

SpecPorts == InitPorts /\ [][NextPorts]_vars

(***************************************************************************)
(* getRandomPort (lines 96-107) on its own: called on every set of        *)
(* allocated ports that the values AllDraws compute, between releases.    *)
(***************************************************************************)
InitAlloc ==
    /\ deployments = Empty
    /\ usedPorts \in SUBSET {randomPort(r) : r \in AllDraws}
    /\ tunnels = Empty
    /\ db \in BOOLEAN
    /\ MAX_DEPLOYMENTS \in 0..MaxLimit
    /\ boot = Listening
    /\ published = {}
    /\ table = Empty
    /\ containers = Empty
    /\ dirs = {}
    /\ cleanups = {}
    /\ proc = Empty
    /\ tcall = Empty
    /\ probing = Empty
    /\ reqs = Empty
    /\ dels = [s \in 1..MaxDeletes |-> IdleDel]
    /\ nextId = 1
    /\ clients = Empty
    /\ reads = NoReads
    /\ resp = NoResp

\* one call getRandomPort(); resp records the port returned, or the error
\* thrown after MaxProbes probes
Allocate ==
    /\ UNCHANGED <<clients, reads>>
    /\ \E port \in getRandomPort(usedPorts, AllDraws) :
          /\ usedPorts' = IF port # NoPort THEN usedPorts \cup {port} ELSE usedPorts
          /\ resp' = Response("getRandomPort", 0, 0,
                               IF port = NoPort THEN "Unable to find available port"
                               ELSE "", port)
    /\ UNCHANGED <<deployments, tunnels, persisted, engine, tunnel, reqs, dels, nextId>>

NextAlloc ==
    \/ Allocate
    \/ \E port \in {randomPort(r) : r \in AllDraws} \cup {Null} : Release(port)

SpecAlloc == InitAlloc /\ [][NextAlloc]_vars

(***************************************************************************)
(* Validation: image and git creations are submitted with well-formed and *)
(* malformed bodies (lines 219-233, 394-408) and run on to the start of   *)
(* their container.                                                       *)
(***************************************************************************)
NextValidate ==
    \/ DeployDocker(Solo, Images, AppPorts)
    \/ DeployGit(Solo, Repos, AppPorts)
    \/ \E id \in Solo : PullImage(id)
    \/ \E id \in Solo : CreateContainer(id)
    \/ \E id \in Solo : StartContainer(id)
    \/ \E id \in Solo : Crash(id)
    \/ \E id \in Solo : DockerVerify(id)
    \/ \E id \in Solo : DockerInsert(id)

SpecValidate == Init /\ [][NextValidate]_vars

(***************************************************************************)
(* Startup (lines 37-82 and 945-958): initDB, cleanupOrphanedTunnels,     *)
(* loadDeploymentsFromDB, server.listen, from the start of the process.   *)
(* boot.ok tells how initDB returned: at line 66 (TRUE) or at line 74.    *)
(***************************************************************************)
\* the row and the container a deployment of an earlier run has left
OldRow(d) ==
    Row(Deployment(d, "docker", <<"n", "g", "i", "n", "x">>, PortBase + d - 1,
                   LocalUrl(PortBase + d - 1), FALSE))
OldContainers ==
    UNION {[C -> {[state |-> "running", port |-> 0], [state |-> "exited", port |-> 0]}]
           : C \in SUBSET Ids}

\* the process starts: `let db` is undefined, the maps are empty, and the
\* table and the engine hold what earlier runs left
InitBoot ==
    /\ deployments = Empty
    /\ usedPorts = {}
    /\ tunnels = Empty
    /\ db = FALSE
    /\ MAX_DEPLOYMENTS \in 0..MaxLimit
    /\ boot = [pc |-> "connect", retries |-> Retries, delay |-> FirstDelay]
    /\ published = {}
    /\ table \in {[d \in S |-> OldRow(d)] : S \in SUBSET Ids}
    /\ containers \in OldContainers
    /\ dirs = {}
    /\ cleanups = {}
    /\ proc = Empty
    /\ tcall = Empty
    /\ probing = Empty
    /\ reqs = Empty
    /\ dels = [s \in 1..MaxDeletes |-> IdleDel]
    /\ nextId = 1
    /\ clients = Empty
    /\ reads = NoReads
    /\ resp = NoResp

NextBoot ==
    \/ InitDBAttempt
    \/ InitDBWait
    \/ CleanupOrphanedTunnels
    \/ LoadSelect
    \/ LoadInspect
    \/ LoadDelete

SpecBoot == InitBoot /\ [][NextBoot]_vars

(***************************************************************************)
(* Startup with clients: the startup chain of lines 945-958 from the       *)
(* start of the process, while clients try to create, delete and read a    *)
(* deployment and to open a WebSocket.                                     *)
(***************************************************************************)
NextStartup ==
    \/ InitDBAttempt
    \/ InitDBWait
    \/ CleanupOrphanedTunnels
    \/ LoadSelect
    \/ LoadInspect
    \/ LoadDelete
    \/ DeployDocker(Solo, {<<"n", "g", "i", "n", "x", ":", "a", "l", "p", "i", "n", "e">>},
                    {<<"8", "0">>})
    \/ DeleteStart(Solo, {1})
    \/ \E id \in Solo : ReadOp("status", id)
    \/ \E s \in 1..MaxReads : ReadInspect(s)
    \/ \E c \in {1} : Connect(c)

SpecStartup == InitBoot /\ [][NextStartup]_vars

(***************************************************************************)
(* Stuck steps: an image deployment (id 1) and a git deployment (id 2)    *)
(* whose pull, clone or build may never complete.  A pull or a build is   *)
(* awaited: it never completes when the step of its request is never      *)
(* taken.  The clone is execSync (line 425), which has no timeout: while  *)
(* it runs, the one thread of the process is inside it and the event loop *)
(* runs no callback.                                                      *)
(***************************************************************************)
EventLoopFree == boot.pc # "blocked"

\* lines 390-425: the git handler passes validation, admission and the port
\* allocation, and enters an execSync('git clone') that does not return
CloneHangs(ids, repos, ports) ==
    \E repo \in repos, appPort \in ports :
        /\ Running
        /\ boot.pc = "listening"
        /\ UNCHANGED reads
        /\ validateGitRepo(repo) /\ validatePort(appPort)
        /\ ~checkDeploymentLimit(deployments, MAX_DEPLOYMENTS)
        /\ nextId \in ids
        /\ nextId' = nextId + 1
        /\ \E port \in getRandomPort(usedPorts, LowDraws) \ {NoPort} :
              /\ usedPorts' = usedPorts \cup {port}
              /\ reqs' = (nextId :> [Issued(Request("git", repo, port),
                                                "Cloning repository...")
                                         EXCEPT !.pc = "clone"])
                         @@ reqs
        /\ clients' = sendProgress(clients, nextId, "Cloning repository...",
                                   Percent("Cloning repository..."))
        /\ \E made \in BOOLEAN : dirs' = IF made THEN dirs \cup {nextId} ELSE dirs
        /\ boot' = [pc |-> "blocked", row |-> nextId, todo |-> {}]
        /\ resp' = NoResp
        /\ UNCHANGED <<deployments, tunnels, db, MAX_DEPLOYMENTS, published, table,
                       containers, cleanups, tunnel, dels>>

\* the event loop runs the continuation of creation request `id`
Resumes(id) ==
    /\ EventLoopFree
    /\ \/ PullImage(id)
       \/ CreateContainer(id)
       \/ StartContainer(id)
       \/ DockerVerify(id)
       \/ DockerFailRemove(id)
       \/ DockerInsert(id)

\* the event loop runs the continuation of the deletion in slot `s`
DeleteResumes(s) ==
    /\ EventLoopFree
    /\ \/ DeleteStop(s)
       \/ DeleteRemove(s)
       \/ DeleteRow(s)

NextStuck ==
    \/ DeployDocker(Solo, GoodImages, GoodPorts)
    \/ DeployGit({2}, GoodRepos, GoodPorts)
    \/ CloneHangs({2}, GoodRepos, GoodPorts)
    \/ DeleteStart(DOMAIN deployments, {1})
    \/ \E id \in Ids : Resumes(id)
    \/ DeleteResumes(1)
    \/ EventLoopFree /\ \E id \in Ids : Crash(id)
    \/ \E c \in Ids : ContainerExit(c)

SpecStuck == Init /\ [][NextStuck]_vars

(***************************************************************************)
(* Detached attach: two image or git deployments, each with its tunnel     *)
(* call, and a deletion that can remove a record before its call settles,  *)
(* on an installation that runs without a database connection.             *)
(***************************************************************************)
InitAttach == Init /\ MAX_DEPLOYMENTS = MaxLimit /\ ~db

NextAttach ==
    \/ DeployDocker(Ids, {<<"n", "g", "i", "n", "x", ":", "a", "l", "p", "i", "n", "e">>},
                    {<<"8", "0">>})
    \/ DeployGit(Ids, {<<"g", "i", "t", "@", "h", ":", "u", "/", "r">>}, {<<"8", "0">>})
    \/ \E id \in Ids : PullImage(id)
    \/ \E id \in Ids : CreateContainer(id)
    \/ \E id \in Ids : StartContainer(id)
    \/ \E id \in Ids : Crash(id)
    \/ \E id \in Ids : DockerVerify(id)
    \/ \E id \in Ids : ProbeDone(id)
    \/ \E id \in Ids : TunnelData(id)
    \/ \E id \in Ids : TunnelTimeout(id)
    \/ DeleteStart(DOMAIN deployments, {1})
    \/ DeleteStop(1)
    \/ DeleteRemove(1)

SpecAttach == InitAttach /\ [][NextAttach]_vars

(***************************************************************************)
(* Handles: one image or git deployment is created, deleted by up to two  *)
(* concurrent requests, and the process is restarted and reconciled, in   *)
(* any order, while nothing but this program removes containers.          *)
(***************************************************************************)
NextHandles ==
    \/ DeployDocker(Solo, {<<"n", "g", "i", "n", "x", ":", "a", "l", "p", "i", "n", "e">>},
                    {<<"8", "0">>})
    \/ DeployGit(Solo, {<<"g", "i", "t", "@", "h", ":", "u", "/", "r">>}, {<<"8", "0">>})
    \/ DeleteStart(DOMAIN deployments, 1..MaxDeletes)
    \/ \E id \in Solo : PullImage(id)
    \/ \E id \in Solo : CreateContainer(id)
    \/ \E id \in Solo : StartContainer(id)
    \/ \E id \in Solo : Crash(id)
    \/ \E id \in Solo : DockerVerify(id)
    \/ \E id \in Solo : DockerFailRemove(id)
    \/ \E id \in Solo : DockerInsert(id)
    \/ \E s \in 1..MaxDeletes : DeleteStop(s)
    \/ \E s \in 1..MaxDeletes : DeleteRemove(s)
    \/ \E s \in 1..MaxDeletes : DeleteRow(s)
    \/ \E c \in Solo : ContainerExit(c)
    \/ Stop
    \/ Start
    \/ InitDBAttempt
    \/ InitDBWait
    \/ CleanupOrphanedTunnels
    \/ LoadSelect
    \/ LoadInspect
    \/ LoadDelete

SpecHandles == Init /\ [][NextHandles]_vars

(***************************************************************************)
(* Progress channel: one creation of an image, git or Dockerfile          *)
(* deployment with its progress events, up to the tunnel call, on an      *)
(* installation with a database connection, while observers connect and   *)
(* close.                                                                 *)
(***************************************************************************)
InitProgress == Init /\ db /\ MAX_DEPLOYMENTS = MaxLimit

NextProgress ==
    \/ DeployDocker(Solo, {<<"n", "g", "i", "n", "x", ":", "a", "l", "p", "i", "n", "e">>},
                    {<<"8", "0">>})
    \/ DeployGit(Solo, {<<"g", "i", "t", "@", "h", ":", "u", "/", "r">>}, {<<"8", "0">>})
    \/ DeployDockerfile(Solo, {TRUE})
    \/ \E id \in Solo : StreamEvent(id)
    \/ \E id \in Solo : PullImage(id)
    \/ \E id \in Solo : CreateContainer(id)
    \/ \E id \in Solo : StartContainer(id)
    \/ \E id \in Solo : Crash(id)
    \/ \E id \in Solo : DockerVerify(id)
    \/ \E id \in Solo : DockerFailRemove(id)
    \/ \E id \in Solo : DockerInsert(id)
    \/ \E c \in Solo : ContainerExit(c)
    \/ \E c \in Observers : Connect(c)
    \/ \E c \in Observers : Close(c)

SpecProgress == InitProgress /\ [][NextProgress]_vars

(***************************************************************************)
(* Readiness probe: one image deployment whose detached waitForContainer  *)
(* (lines 311-336) runs iteration by iteration while the container may    *)
(* exit or be removed, up to the tunnel call that follows it.             *)
(***************************************************************************)
NextProbe ==
    \/ DeployDocker(Solo, GoodImages, GoodPorts)
    \/ \E id \in Solo : PullImage(id)
    \/ \E id \in Solo : CreateContainer(id)
    \/ \E id \in Solo : StartContainer(id)
    \/ \E id \in Solo : Crash(id)
    \/ \E id \in Solo : DockerVerify(id)
    \/ \E id \in Solo : DockerFailRemove(id)
    \/ \E id \in Solo : DockerInsert(id)
    \/ \E id \in Solo : ProbeInspect(id)
    \/ \E id \in Solo : ProbeGet(id)
    \/ \E id \in Solo : ProbeSleep(id)
    \/ \E id \in Solo : TunnelData(id)
    \/ \E id \in Solo : UpdateRow(id)
    \/ \E id \in Solo : TunnelTimeout(id)
    \/ \E c \in Solo : ContainerExit(c)
    \/ \E c \in Solo : ExternalRemove(c)

SpecProbe == Init /\ [][NextProbe]_vars

\* the timer of line 324 fires, axios.get settles within its 2000 ms
\* timeout (line 319), and the engine answers inspect()
SpecProbeFair ==
    /\ SpecProbe
    /\ \A id \in Solo : /\ WF_vars(ProbeInspect(id))
                        /\ WF_vars(ProbeGet(id))
                        /\ WF_vars(ProbeSleep(id))

(***************************************************************************)
(* Properties.                                                             *)
(***************************************************************************)
Range(f) == {f[i] : i \in DOMAIN f}

\* the records of the store that hold host port p
Holders(deps, p) == {d \in DOMAIN deps : deps[d].hostPort = p}

\* C1: no two deployments that are in the record store at the same time
\* hold the same host port.
C1_UniqueHostPorts ==
    \A a, b \in DOMAIN deployments :
        a # b => deployments[a].hostPort # deployments[b].hostPort

\* C2: a step never removes a port from usedPorts while a deployment that
\* holds the port is (still) in the record store.
C2_ReleasedPortsAreUnheld ==
    [][\A p \in usedPorts \ usedPorts' : Holders(deployments', p) = {}]_vars

\* a step answers a creation request with the limit error
LimitRejection ==
    /\ resp' # resp
    /\ resp'.code = 500 /\ resp'.error = "Deployment limit reached"

\* C3: a creation request is admitted (it draws a deployment id) only while
\* the store holds fewer than MAX_DEPLOYMENTS records; the limit error is
\* answered only when the store holds MAX_DEPLOYMENTS or more, and that
\* step leaves usedPorts, the record store and the tunnel registry as they
\* were.
C3_RejectionChangesNothing ==
    [][/\ nextId' # nextId => Cardinality(DOMAIN deployments) < MAX_DEPLOYMENTS
       /\ LimitRejection =>
             /\ Cardinality(DOMAIN deployments) >= MAX_DEPLOYMENTS
             /\ resp'.op \in {"docker", "git", "dockerfile", "test"}
             /\ UNCHANGED <<usedPorts, deployments, tunnels>>]_vars

\* C3 happens: a git request was rejected at the limit while a deployment
\* held its port
C3_Witness ==
    /\ resp.code = 500 /\ resp.error = "Deployment limit reached"
    /\ resp.op = "git"
    /\ Cardinality(DOMAIN deployments) = MAX_DEPLOYMENTS
    /\ usedPorts # {}

\* C4: the number of records in the deployment store never exceeds
\* MAX_DEPLOYMENTS.
C4_StoreWithinLimit == Cardinality(DOMAIN deployments) <= MAX_DEPLOYMENTS

\* the response of the image handler to a container that the post-start
\* inspection found not running
FailedToStart == resp.code = 500 /\ resp.error = "Container failed to start"

\* the container of deployment id is running
Live(id) == id \in DOMAIN containers /\ containers[id].state = "running"

\* C5 as stated: when the request whose container was found not running
\* returns, the store holds its Deployment with status failed, its
\* container is not live and its port is free again.
C5_FailedRecord ==
    FailedToStart =>
        /\ resp.id \in DOMAIN deployments
        /\ deployments[resp.id].status = "failed"
        /\ ~Live(resp.id)
        /\ usedPorts = {}

\* C5 as the code has it: when the request whose container was found not
\* running returns (500, Container failed to start), the store holds no
\* record of the request, no record has status failed, the container is not
\* live and usedPorts is as it was before the request (empty).
C5_NoRecordPortFree ==
    FailedToStart =>
        /\ resp.id \notin DOMAIN deployments
        /\ \A d \in DOMAIN deployments : deployments[d].status # "failed"
        /\ ~Live(resp.id)
        /\ resp.port \in {randomPort(r) : r \in LowDraws}
        /\ usedPorts = {}

\* C5 happens: the request returned after the forced removal of its exited
\* container threw, so that the container is still there
C5_Witness ==
    /\ FailedToStart
    /\ resp.id \in DOMAIN containers
    /\ containers[resp.id].state = "exited"

\* C6: when an error of a step after the port allocation is returned to the
\* caller, the port is out of usedPorts and no container created by the
\* request exists any more.
C6_FailureReleasesAll ==
    (resp.code = 500 /\ resp.port # NoPort) =>
        /\ resp.port \notin usedPorts
        /\ resp.id \notin DOMAIN containers

\* the step of deletion s that runs from the outcome of container.remove()
\* through the tunnel, port, directory and store steps, in a process that
\* goes on running
Cleans(s) == dels[s].pc = "remove" /\ dels'[s].pc \in {"dbdelete", "idle"} /\ boot' = boot

\* the step of deletion s that takes the outcome of the DELETE and responds
Finishes(s) == dels[s].pc = "dbdelete" /\ dels'[s].pc = "idle" /\ boot' = boot

\* the warnings deletion s has collected when its step Cleans(s) is over
Collected(s) == IF db THEN dels'[s].errors ELSE resp'.warnings

\* C7: the cleanup step of a deletion whose deployment has a tunnel in the
\* registry kills the subprocess of the tunnel and removes the entry,
\* whatever container.stop() and container.remove() did.
C7_DeleteKillsTunnel ==
    [][\A s \in 1..MaxDeletes :
          (Cleans(s) /\ dels[s].id \in DOMAIN tunnels) =>
              /\ dels[s].id \notin DOMAIN tunnels'
              /\ proc'[tunnels[dels[s].id].process] = "dead"]_vars

\* C7 happens: a deletion whose container.remove() threw (the container is
\* still there) has answered, the tunnel that was registered is out of the
\* registry and its subprocess is dead
C7_Witness ==
    /\ resp.op = "delete" /\ resp.code = 200
    /\ "Container cleanup failed" \in Range(resp.warnings)
    /\ resp.id \in DOMAIN containers
    /\ resp.id \in DOMAIN tcall /\ tcall[resp.id].resolved
    /\ resp.id \notin DOMAIN tunnels
    /\ proc[resp.id] = "dead"

\* C8: whatever container.stop() and container.remove() did, the cleanup
\* step of a deletion leaves no tunnel entry, frees the port, attempts the
\* directory removal, removes the record and goes on to the DELETE of the
\* row when there is a database; the warnings hold exactly one entry for a
\* failed container step and one for a failed directory removal; the
\* deletion ends with a success response for an id that is not in the
\* store, whose warnings are those collected plus one when the DELETE threw.
C8_DeleteRunsEveryStep ==
    [][\A s \in 1..MaxDeletes :
          LET d == dels[s] IN
          /\ Cleans(s) =>
                /\ d.id \notin DOMAIN tunnels'
                /\ d.hostPort \notin usedPorts'
                /\ d.id \notin DOMAIN deployments'
                /\ ("Container cleanup failed" \in Range(Collected(s)))
                       <=> (containers' = containers)
                /\ ("Build directory cleanup failed" \in Range(Collected(s)))
                       <=> (d.buildDir /\ d.id \in dirs /\ dirs' = dirs)
                /\ Len(Collected(s)) = Cardinality(Range(Collected(s)))
                /\ Range(Collected(s)) \subseteq
                       {"Container cleanup failed", "Build directory cleanup failed"}
                /\ IF db THEN dels'[s].pc = "dbdelete"
                   ELSE resp'.op = "delete" /\ resp'.code = 200 /\ resp'.id = d.id
          /\ Finishes(s) =>
                /\ resp'.op = "delete" /\ resp'.code = 200 /\ resp'.id = d.id
                /\ d.id \notin DOMAIN deployments'
                /\ \/ resp'.warnings = d.errors /\ d.id \notin DOMAIN table'
                   \/ /\ resp'.warnings = Append(d.errors, "Database deletion failed")
                      /\ table' = table]_vars

\* C8 happens: a deletion has answered success with three warnings (the
\* container, the build directory and the database step failed) and the
\* record is gone
C8_Witness ==
    /\ resp.op = "delete" /\ resp.code = 200
    /\ Len(resp.warnings) = 3
    /\ resp.id \notin DOMAIN deployments
    /\ resp.id \in dirs /\ resp.id \in DOMAIN containers

\* a deletion of id has answered success
Deleted(id) == resp.op = "delete" /\ resp.code = 200 /\ resp.id = id

\* C9: the cleanup step of a deletion that finds the container gone collects
\* the container warning, frees the port and removes the record; the
\* deletion answers success with the warnings collected; and from a success
\* answer of a deletion on, the id is never in the store again.
C9_DeleteWithoutContainer ==
    /\ [][\A s \in 1..MaxDeletes :
             LET d == dels[s] IN
             /\ (Cleans(s) /\ d.container \notin DOMAIN containers) =>
                   /\ "Container cleanup failed" \in Range(Collected(s))
                   /\ d.hostPort \notin usedPorts'
                   /\ d.id \notin DOMAIN deployments'
             /\ (Cleans(s) /\ ~db) => resp'.code = 200
             /\ Finishes(s) =>
                   /\ resp'.code = 200
                   /\ Range(d.errors) \subseteq Range(resp'.warnings)]_vars
    /\ \A id \in Ids : [](Deleted(id) => [](id \notin DOMAIN deployments))

\* C9 happens: the container was removed outside, and the deletion answered
\* success with the container warning as its only warning, with the port
\* free and the record gone
C9_Witness ==
    /\ Deleted(1)
    /\ resp.warnings = <<"Container cleanup failed">>
    /\ containers = Empty /\ nextId > 1
    /\ usedPorts = {}
    /\ deployments = Empty

\* a step answers an operation on one deployment without taking a deletion
\* or a suspended read further: the lookup of the id is all it did
Lookup ==
    /\ resp' # resp
    /\ resp'.op \in {"delete", "logs", "status", "fix-port"}
    /\ dels' = dels /\ reads' = reads

\* C10: delete, get logs, get status and fix-port on an id that is not in
\* the record store when the handler looks it up answer 404 Deployment not
\* found in that segment, start no deletion, suspend at no engine call, and
\* leave the record store, usedPorts, the tunnel registry and the
\* persisted table unchanged.
C10_UnknownIdNotFound ==
    [][/\ (Lookup /\ resp'.id \notin DOMAIN deployments) =>
             /\ resp'.code = 404 /\ resp'.error = "Deployment not found"
             /\ UNCHANGED <<deployments, usedPorts, tunnels, table>>
       /\ \A s \in 1..MaxDeletes :
             (dels[s].pc = "idle" /\ dels'[s].pc # "idle") =>
                 dels'[s].id \in DOMAIN deployments
       /\ \A s \in 1..MaxReads :
             (reads[s].pc = "idle" /\ reads'[s].pc # "idle") =>
                 reads'[s].id \in DOMAIN deployments]_vars

\* C10 happens: fix-port was asked of an id that is not in the store while
\* the store held another deployment, and answered 404
C10_Witness ==
    /\ resp.op = "fix-port" /\ resp.code = 404
    /\ resp.id \notin DOMAIN deployments
    /\ deployments # Empty /\ usedPorts # {}

\* a step ends the startup reconciliation: loadDeploymentsFromDB returns
LoadEnds == boot.pc \in {"select", "inspect", "delete"} /\ boot'.pc = "listening"

\* the container a row names is in the engine
RowContainerExists(tab, r, cs) == tab[r].container_id \in DOMAIN cs

\* C11: when reconciliation ends, every row whose container is not in the
\* engine is out of the in-memory store and out of the table.  Stated for
\* the rows whose own DELETE did not throw: the row the loop is at when it
\* ends is left aside.
C11_MissingContainersPurged ==
    [][LoadEnds =>
          \A r \in DOMAIN table' \ {boot.row} :
              ~RowContainerExists(table', r, containers') =>
                  r \notin boot.todo]_vars

\* C12: a row whose container is in the engine when reconciliation looks
\* at it is stored under its id with status running when the engine
\* reports the container running and stopped otherwise, and no such row
\* is left unvisited when reconciliation ends.  Stated for the steps of a
\* process that goes on running.
C12_ExistingContainersRehydrated ==
    [][/\ (boot.pc = "inspect" /\ boot' # boot /\ boot'.pc # "exited"
              /\ boot.row \in DOMAIN table
              /\ RowContainerExists(table, boot.row, containers)) =>
             /\ boot.row \in DOMAIN deployments'
             /\ deployments'[boot.row].status =
                   (IF containers[table[boot.row].container_id].state = "running"
                    THEN "running" ELSE "stopped")
       /\ LoadEnds =>
             \A r \in boot.todo \cap DOMAIN table' :
                 ~RowContainerExists(table', r, containers')]_vars

\* C13: the success response of a creation from an image reference carries
\* the new id and the url http://localhost:<hostPort>, and the record of
\* that id, as long as it is in the store, has status running.
C13_ImageCreationAnswersLocalUrl ==
    (resp.op = "docker" /\ resp.code = 200) =>
        /\ resp.id \in Ids
        /\ resp.url = LocalUrl(resp.port)
        /\ resp.id \in DOMAIN deployments => deployments[resp.id].status = "running"

\* C14: a record whose deployment has once carried a public address carries
\* it whenever it is in the store, across restart and reconciliation too,
\* and always the same one: the address its tunnel call resolved to.
C14_PublicAddressNeverReverts ==
    \A id \in published \cap DOMAIN deployments :
        /\ deployments[id].hasPublicUrl
        /\ deployments[id].url \in TunnelUrls(id)
        /\ (id \in DOMAIN tcall /\ tcall[id].promise = "url") =>
              deployments[id].url = tcall[id].url

\* a step of tunnel provisioning or of the readiness probe: a probe ends, a
\* subprocess is spawned or fails to spawn, its output matches, its
\* timeout elapses, or it exits
TunnelStep == tcall' # tcall \/ probing' # probing \/ proc' # proc

\* the record with its url and hasPublicUrl blanked
Core(d) == [d EXCEPT !.url = <<>>, !.hasPublicUrl = FALSE]

\* C15: a step of tunnel provisioning or of the readiness probe, whatever
\* its outcome, answers no error, keeps every record in the store with its
\* status running and its local address, and changes at most url and
\* hasPublicUrl; a request that awaited the tunnel is answered success and
\* its record is stored with status running.
C15_TunnelNeverFailsDeployment ==
    [][(TunnelStep /\ dels' = dels) =>
          /\ resp'.code \in {0, 200}
          /\ \A d \in DOMAIN deployments :
                /\ d \in DOMAIN deployments'
                /\ Core(deployments'[d]) = Core(deployments[d])
                /\ deployments'[d].status = "running"
                /\ deployments'[d].localUrl = LocalUrl(deployments[d].hostPort)
          /\ \A id \in DOMAIN reqs :
                (/\ reqs[id].kind \in {"dockerfile", "test"}
                 /\ id \in DOMAIN tcall' /\ tcall'[id].promise # "pending"
                 /\ id \in DOMAIN tcall => tcall[id].promise = "pending") =>
                    /\ resp'.code = 200 /\ resp'.id = id
                    /\ id \in DOMAIN deployments'
                    /\ deployments'[id].status = "running"
                    /\ deployments'[id].hasPublicUrl = (tcall'[id].promise = "url")
                    /\ resp'.url = IF tcall'[id].promise = "url" THEN tcall'[id].url
                                   ELSE LocalUrl(reqs[id].hostPort)]_vars

\* C15 happens: the request of an uploaded Dockerfile whose tunnel timed out
\* (the subprocess was killed) was answered success with the local address
C15_Witness ==
    /\ resp.op = "dockerfile" /\ resp.code = 200
    /\ resp.url = LocalUrl(resp.port)
    /\ resp.id \in DOMAIN proc /\ proc[resp.id] = "dead"
    /\ tcall[resp.id].promise = "null"
    /\ resp.id \in DOMAIN deployments
    /\ deployments[resp.id].status = "running" /\ ~deployments[resp.id].hasPublicUrl

\* C16: every call of createPublicTunnel eventually resolves and resolves
\* once: a settled promise never changes, it settles to the URL only when
\* checkForUrl first matches, and to none only when the timeout fires with no
\* match (the subprocess is then killed) or when the spawn reports an error;
\* a subprocess that exited before a match leaves the call to the timeout
Pending(id) == id \in DOMAIN tcall /\ tcall[id].promise = "pending"
Settled(id) == id \in DOMAIN tcall /\ tcall[id].promise \in {"url", "null"}
C16_TunnelResolvesOnce ==
    /\ \A id \in Ids : Pending(id) ~> Settled(id)
    /\ [][\A id \in DOMAIN tcall' :
            /\ id \in DOMAIN tcall /\ Settled(id) =>
                  tcall'[id].promise = tcall[id].promise
            /\ Pending(id) /\ tcall'[id].promise = "url" =>
                  /\ ~tcall[id].resolved /\ tcall'[id].resolved
                  /\ tcall'[id].url \in TunnelUrls(id)
                  /\ id \in DOMAIN tunnels' /\ tunnels'[id].url = tcall'[id].url
            /\ Pending(id) /\ tcall'[id].promise = "null" =>
                  /\ ~tcall[id].resolved /\ ~tcall'[id].resolved
                  /\ tcall[id].timer /\ ~tcall'[id].timer
                  /\ proc'[id] = "dead"
            /\ id \notin DOMAIN tcall =>
                  \/ tcall'[id].promise = "pending" /\ tcall'[id].timer
                  \/ tcall'[id].promise = "null" /\ id \notin DOMAIN proc']_vars

\* C16 happens: a call settled to none by the timeout stays none although a
\* match in the output of the killed subprocess was handled afterwards
C16_Witness ==
    \E id \in DOMAIN tcall :
        /\ tcall[id].promise = "null" /\ tcall[id].resolved
        /\ proc[id] = "dead"
        /\ id \in DOMAIN tunnels

\* C17: a write to the persistent table that fails (the INSERT of a
\* creation, the UPDATE of a tunnel URL, the DELETE of a removal) keeps the
\* change of the store and is not surfaced: whatever the outcome of the
\* write, the operation answers success
C17_PersistenceFailureNotSurfaced ==
    [][/\ \A id \in DOMAIN reqs :
             (reqs[id].pc = "insert" /\ id \notin DOMAIN reqs') =>
                 /\ resp'.code = 200 /\ resp'.id = id
                 /\ deployments' = deployments
       /\ \A s \in DOMAIN dels :
             (dels[s].pc = "dbdelete" /\ dels'[s].pc = "idle") =>
                 /\ resp'.code = 200 /\ resp'.id = dels[s].id
                 /\ dels[s].id \notin DOMAIN deployments'
       /\ \A id \in DOMAIN tcall :
             (/\ Pending(id) /\ tcall'[id].promise = "url"
              /\ tcall[id].kind \in {"docker", "git"}
              /\ id \in DOMAIN deployments) =>
                 /\ resp'.code # 500
                 /\ deployments'[id].url = tcall'[id].url]_vars

\* C18: for every source kind the creation response is sent once the
\* container is started and the record stored, without waiting for the
\* tunnel: no creation request is ever suspended on a pending call of
\* createPublicTunnel with its record not yet in the store
C18_CreationNeverAwaitsTunnel ==
    \A id \in DOMAIN reqs :
        ~(/\ Pending(id)
          /\ reqs[id].pc = "tunnel"
          /\ id \notin DOMAIN deployments)

\* C19 as stated: a record takes status stopped only in a step of an
\* explicit deletion of that deployment
C19_StoppedOnlyByDeletion ==
    [][\A d \in DOMAIN deployments' :
          (/\ deployments'[d].status = "stopped"
           /\ d \in DOMAIN deployments => deployments[d].status # "stopped") =>
              \E s \in DOMAIN dels : dels[s].id = d /\ dels'[s] # dels[s]]_vars

\* C19, amended: a record has status stopped only because startup
\* reconciliation rebuilt it from a row whose container exists and is not
\* running; no handler changes the status of a stored record; a record
\* leaves the store only by its deletion, which removes it, or when the
\* process ends
C19_StoppedOnlyByReconciliation ==
    [][/\ \A d \in DOMAIN deployments' :
             (/\ deployments'[d].status = "stopped"
              /\ d \in DOMAIN deployments => deployments[d].status # "stopped") =>
                 /\ boot.pc = "inspect" /\ boot.row = d
                 /\ d \notin DOMAIN deployments
                 /\ RowContainerExists(table, d, containers)
                 /\ containers[table[d].container_id].state # "running"
       /\ \A d \in DOMAIN deployments \cap DOMAIN deployments' :
             deployments'[d].status = deployments[d].status
       /\ \A d \in DOMAIN deployments \ DOMAIN deployments' :
             \/ \E s \in DOMAIN dels : dels[s].id = d /\ dels'[s] # dels[s]
             \/ boot.pc # "exited" /\ boot'.pc = "exited"]_vars

\* C19 happens: after the process was stopped and started again the store
\* holds a stopped record, and the server is listening
C19_Witness ==
    /\ boot.pc = "listening"
    /\ \E d \in DOMAIN deployments :
          /\ deployments[d].status = "stopped"
          /\ d \in DOMAIN containers /\ containers[d].state # "running"

\* C20: releasePort is total and idempotent: for every set of allocated
\* ports and every argument (an allocated port, a free one, one never
\* allocated, null) it yields usedPorts minus that port, which is usedPorts
\* itself when the port was not in it, and a second release of the same
\* port changes nothing more
C20_ReleaseIdempotentTotal ==
    /\ [](\A port \in ReleaseArgs :
            LET once == releasePort(usedPorts, port)
            IN  /\ once = usedPorts \ {port}
                /\ port \notin usedPorts => once = usedPorts
                /\ releasePort(once, port) = once)
    /\ [][\A port \in ReleaseArgs :
            Release(port) =>
                /\ usedPorts' = usedPorts \ {port}
                /\ releasePort(usedPorts', port) = usedPorts']_vars

\* C20 happens: releasePort(null) was called on a set that holds an allocated
\* port, and the port is still held
C20_Witness ==
    /\ resp.op = "releasePort" /\ resp.port = Null
    /\ usedPorts = {PortBase}

\* C21 as the code has it: a call of getRandomPort ends within MaxProbes
\* probes in one of two ways: it returns an integer of 5000..9999 that was
\* not in usedPorts before the call and is in usedPorts after it (nothing
\* else changed), or it throws the no-port error and leaves usedPorts as it
\* was
C21_AllocateFreshOrFail ==
    /\ [](\A port \in getRandomPort(usedPorts, AllDraws) :
            \/ port = NoPort
            \/ /\ port \in PortBase..PortTop
               /\ port \notin usedPorts
               /\ \E attempts \in 0..(MaxProbes - 1) :
                     port \in ReturnedAt(usedPorts, AllDraws, attempts))
    /\ [][Allocate =>
            \/ /\ resp'.error = ""
               /\ resp'.port \in (PortBase..PortTop) \ usedPorts
               /\ usedPorts' = usedPorts \cup {resp'.port}
            \/ /\ resp'.error = "Unable to find available port"
               /\ resp'.port = NoPort
               /\ usedPorts' = usedPorts]_vars

\* C21 happens: the call drew a value of Math.random() just below 1 and
\* returned the port 9999, which is now held
C21_Witness ==
    /\ resp.op = "getRandomPort"
    /\ resp.error = ""
    /\ resp.port = PortTop
    /\ PortTop \in usedPorts

\* C21 as stated: a call of getRandomPort returns an integer of 5000..9998
\* that was not in usedPorts before the call and is in usedPorts after it,
\* or it throws the no-port error and leaves usedPorts as it was
C21_AllocateBelowTop ==
    [][Allocate =>
          \/ /\ resp'.error = ""
             /\ resp'.port \in (PortBase..(PortTop - 1)) \ usedPorts
             /\ usedPorts' = usedPorts \cup {resp'.port}
          \/ /\ resp'.error = "Unable to find available port"
             /\ resp'.port = NoPort
             /\ usedPorts' = usedPorts]_vars

\* a target port written as a decimal numeral of 1..65535: what the key
\* `${appPort}/tcp` of lines 265 and 449 needs
PortNumeral(port) ==
    /\ Len(port) >= 1
    /\ AllIn(port, 1, Len(port), Digits)
    /\ parseInt(port) \in 1..MaxPortNum

\* the request was answered with a validation error and touched nothing
RejectedUntouched ==
    /\ resp'.code = 400
    /\ UNCHANGED <<deployments, usedPorts, tunnels, containers, dirs, proc, tcall,
                   reqs, table>>

\* C22: a creation request whose image reference, repository URL or target
\* port is malformed is answered with a validation error, and no port is
\* allocated, no engine call made, and the store and the tunnel registry
\* are unchanged
C22_MalformedRejectedUntouched ==
    [][\A appPort \in AppPorts :
          /\ \A image \in Images :
                (/\ ~validateDockerImage(image) \/ ~PortNumeral(appPort)
                 /\ DeployDocker(Solo, {image}, {appPort})) => RejectedUntouched
          /\ \A repo \in Repos :
                (/\ ~validateGitRepo(repo) \/ ~PortNumeral(appPort)
                 /\ DeployGit(Solo, {repo}, {appPort})) => RejectedUntouched]_vars

\* C23: initDB makes at most Retries connection attempts; the waits between
\* them start at FirstDelay, grow by the factor 1.5 and never exceed
\* MaxDelay; when the last attempt fails it returns without a wait and
\* without a database handle, and startup goes on: the orphaned tunnels are
\* cleaned up, reconciliation is skipped and the server listens
C23_InitDBBoundedRetries ==
    /\ [](boot.pc \in {"connect", "wait"} =>
            /\ boot.retries \in 1..Retries
            /\ boot.delay \in FirstDelay..MaxDelay
            /\ boot.retries = Retries => boot.delay = FirstDelay)
    /\ [][/\ (boot.pc = "connect" /\ boot'.pc = "wait") =>
                /\ boot'.retries = boot.retries - 1 /\ boot'.delay = boot.delay
          /\ (boot.pc = "wait" /\ boot' # boot) =>
                /\ boot'.pc = "connect" /\ boot'.retries = boot.retries
                /\ boot'.delay * 2 \in {boot.delay * 3, MaxDelay * 2}
                /\ boot'.delay >= boot.delay
          /\ (boot.pc = "connect" /\ boot'.pc = "cleanup" /\ ~boot'.ok) =>
                /\ boot.retries = 1
                /\ ~db'
          /\ (boot.pc = "select" /\ boot' # boot /\ ~db) =>
                /\ boot' = Listening
                /\ deployments' = deployments /\ table' = table]_vars

\* C24: when a deployment was deleted before its detached tunnel
\* provisioning completes, the completion changes nothing: the record
\* store, the persisted table and the tunnel registry are after it what
\* they were before it
C24_LateTunnelMutatesNothing ==
    [][\A id \in DOMAIN tcall :
          (/\ tcall[id].kind \in {"docker", "git"}
           /\ Pending(id)
           /\ id \notin DOMAIN deployments
           /\ id \in DOMAIN tcall' /\ tcall'[id].promise # "pending") =>
              /\ deployments' = deployments
              /\ table' = table
              /\ tunnels' = tunnels]_vars

\* the deployment of tunnel call `id` was deleted, and its deletion and its
\* detached task have both finished
DeletedAndDone(id) ==
    /\ Settled(id)
    /\ id \notin DOMAIN deployments /\ id \notin DOMAIN reqs
    /\ \A s \in DOMAIN dels : dels[s].id # id

\* C25: whenever a deployment is deleted, every tunnel subprocess spawned
\* for it, before the deletion or by a detached task still running at that
\* time, is eventually terminated, and no registry entry of the id remains
\* once the deletion and the detached task have both finished
C25_DeletedTunnelsTerminated ==
    \A id \in Ids :
        DeletedAndDone(id) ~>
            /\ id \notin DOMAIN tunnels
            /\ id \in DOMAIN proc => proc[id] = "dead"

\* C26: at most one orchestration sequence is active for a deployment id:
\* no two deletions of the same id are in progress at a time, and the
\* cleanup steps of a deletion (tunnel close, port release, record removal)
\* never run for an id whose record another deletion has already removed
C26_OneSequencePerId ==
    /\ [](\A s, t \in DOMAIN dels :
            (s # t /\ dels[s].pc # "idle" /\ dels[t].pc # "idle") =>
                dels[s].id # dels[t].id)
    /\ [][\A s \in DOMAIN dels :
            (dels[s].pc = "remove" /\ dels'[s].pc # "remove") =>
                dels[s].id \in DOMAIN deployments]_vars

\* C27: a creation whose clone, pull or build never completes blocks only
\* its own sequence: every other creation that is suspended and every
\* deletion in progress can still take its next step
C27_StuckStepBlocksOnlyItself ==
    /\ \A id \in DOMAIN reqs : reqs[id].pc # "clone" => ENABLED Resumes(id)
    /\ \A s \in {1} : dels[s].pc # "idle" => ENABLED DeleteResumes(s)

\* C28: for every source kind a record with status running enters the store
\* only after an inspection that followed the start has confirmed the
\* container running: the step that inserts the record is the one that
\* takes the result of that inspection, and the container it inspected
\* exists and is running
C28_RunningRecordWasVerified ==
    [][\A id \in DOMAIN deployments' \ DOMAIN deployments :
          deployments'[id].status = "running" =>
              /\ id \in DOMAIN reqs /\ reqs[id].pc = "verify"
              /\ deployments'[id].container \in DOMAIN containers
              /\ containers[deployments'[id].container].state = "running"]_vars

Kinds == {"docker", "git", "dockerfile", "test"}

\* C29: with the database connected and no persistence call failing, the
\* table mirrors the store after every completed operation.  A creation
\* answered success (no INSERT failed) leaves a row of its id with the url
\* of its record; a tunnel attach leaves the record it changed with a row;
\* a deletion answered without warnings (no DELETE failed) leaves neither
\* record nor row
C29_TableMirrorsStore ==
    [][db =>
        /\ (resp' # resp /\ resp'.op \in Kinds /\ resp'.code = 200
                /\ resp'.id \in DOMAIN deployments') =>
              /\ resp'.id \in DOMAIN table'
              /\ table'[resp'.id].url = deployments'[resp'.id].url
        /\ \A id \in DOMAIN tcall :
              (/\ Pending(id) /\ tcall'[id].promise = "url"
               /\ tcall[id].kind \in {"docker", "git"}
               /\ id \in DOMAIN deployments /\ id \notin DOMAIN reqs) =>
                  id \in DOMAIN table'
        /\ (resp' # resp /\ resp'.op = "delete" /\ resp'.code = 200
                /\ resp'.warnings = <<>>) =>
              /\ resp'.id \notin DOMAIN deployments'
              /\ resp'.id \notin DOMAIN table']_vars

\* C30: reconciliation checks every persisted row: when the loop of
\* loadDeploymentsFromDB ends, each row of the table has been rehydrated
\* into the store or purged from the table, whatever inspect() and the
\* DELETE did on the other rows.  The row whose own DELETE threw is left
\* aside.
C30_EveryRowReconciled ==
    [][(boot.pc \in {"inspect", "delete"} /\ boot'.pc = "listening") =>
          \A r \in DOMAIN table' \ (IF boot.pc = "delete" THEN {boot.row} ELSE {}) :
              r \in DOMAIN deployments']_vars

\* C31: the readiness probe of an image deployment ends within maxAttempts
\* iterations and so within maxAttempts connectivity attempts; a failed
\* attempt is followed by a sleep of ProbeDelay before the next one;
\* when the probe ends, ready or not, createPublicTunnel is called, once;
\* no step of the probe changes or removes a record; a probe that has
\* started ends
C31_ProbeBoundedThenTunnel ==
    /\ [](\A id \in DOMAIN probing :
            /\ probing[id].i \in 0..(maxAttempts - 1)
            /\ probing[id].gets <= probing[id].i + 1
            /\ probing[id].gets <= maxAttempts
            /\ probing[id].pc = "sleep" => probing[id].delay = ProbeDelay
            /\ id \notin DOMAIN tcall)
    /\ [][\A id \in DOMAIN probing :
            /\ (id \in DOMAIN probing' /\ probing'[id] # probing[id]) =>
                  /\ deployments' = deployments
                  /\ probing'[id].i >= probing[id].i
                  /\ probing'[id].gets > probing[id].gets =>
                        /\ probing'[id].pc = "get"
                        /\ probing[id].gets > 0 =>
                              probing'[id].i > probing'[id].gets - 2
                  /\ probing[id].pc = "get" =>
                        /\ probing'[id].pc = "sleep"
                        /\ probing'[id].delay = ProbeDelay
                  /\ probing[id].pc = "sleep" =>
                        probing'[id].i = probing[id].i + 1
            /\ id \notin DOMAIN probing' =>
                  /\ deployments' = deployments
                  /\ id \in DOMAIN tcall'
                  /\ tcall'[id].kind = "docker"]_vars
    /\ \A id \in Solo : (id \in DOMAIN probing) ~> (id \notin DOMAIN probing)

\* C31 happens: ten connectivity attempts have failed, the probe is in its
\* last sleep, and the record is still in the store with status running
C31_Witness ==
    \E id \in DOMAIN probing :
        /\ probing[id].gets = maxAttempts
        /\ probing[id].pc = "sleep"
        /\ id \in DOMAIN deployments /\ deployments[id].status = "running"

\* the messages of `got` that are about deployment `id`
About(got, id) == SelectSeq(got, LAMBDA m : m.deployId = id)

\* the messages of the events a creation sequence has issued
Messages(id, events) ==
    [j \in 1..Len(events) |-> Message(id, events[j].step, events[j].progress)]

\* how many events the creation of `id` had issued when `c` connected
SeenBy(c, id) == IF id \in DOMAIN clients[c].seen THEN clients[c].seen[id] ELSE 0

IsPrefix(s, t) == Len(s) <= Len(t) /\ SubSeq(t, 1, Len(s)) = s

\* C32: for a running creation, an observer whose socket is open has been
\* sent exactly the events the creation issued since it connected, in the
\* order they were issued (all of them when it connected before the
\* creation began, none of the earlier ones otherwise); an observer whose
\* socket has closed is sent nothing more; a new connection starts with
\* nothing; every step sends the same messages to all open observers
C32_ObserversSeeEventsInOrder ==
    /\ [](\A c \in DOMAIN clients : \A id \in DOMAIN reqs :
            LET all == Messages(id, reqs[id].events)
                later == SubSeq(all, SeenBy(c, id) + 1, Len(all))
            IN IF clients[c].readyState = "OPEN"
               THEN About(clients[c].got, id) = later
               ELSE IsPrefix(About(clients[c].got, id), later))
    /\ [][/\ \A c \in DOMAIN clients' \ DOMAIN clients : clients'[c].got = <<>>
          /\ \A c \in DOMAIN clients :
                /\ c \in DOMAIN clients'
                /\ IsPrefix(clients[c].got, clients'[c].got)
                /\ clients[c].readyState # "OPEN" => clients'[c].got = clients[c].got
          /\ \A c, d \in DOMAIN clients :
                (clients[c].readyState = "OPEN" /\ clients[d].readyState = "OPEN") =>
                    SubSeq(clients'[c].got, Len(clients[c].got) + 1, Len(clients'[c].got))
                    = SubSeq(clients'[d].got, Len(clients[d].got) + 1,
                             Len(clients'[d].got))]_vars

\* C32 happens: while a creation runs, one observer connected before it has
\* all its events, and another that connected after the first event and
\* closed before the last one has only the events in between
C32_Witness ==
    \E id \in DOMAIN reqs : \E c, d \in DOMAIN clients :
        /\ clients[c].readyState = "OPEN"
        /\ SeenBy(c, id) = 0
        /\ Len(clients[c].got) = Len(reqs[id].events)
        /\ clients[d].readyState = "CLOSED"
        /\ SeenBy(d, id) >= 1
        /\ Len(clients[d].got) >= 1
        /\ SeenBy(d, id) + Len(clients[d].got) < Len(reqs[id].events)

\* the percentages never go down and 100 is followed by nothing
Monotone(ps) ==
    /\ \A j \in 1..(Len(ps) - 1) : ps[j] <= ps[j + 1]
    /\ \A j \in 1..Len(ps) : ps[j] = 100 => j = Len(ps)

\* C39: the percentages of the events a creation sequence has issued, and
\* of the messages about one deployment an observer has been sent, are in
\* non-decreasing order, and 100 appears only as the last of them
C39_ProgressMonotone ==
    /\ \A id \in DOMAIN reqs :
          Monotone([j \in 1..Len(reqs[id].events) |-> reqs[id].events[j].progress])
    /\ \A c \in DOMAIN clients : \A id \in Ids :
          LET got == About(clients[c].got, id)
          IN Monotone([j \in 1..Len(got) |-> got[j].progress])

\* C39 happens: an observer has been sent the whole sequence of an image
\* deployment whose container did not stay up: 20, a pull event at 30, 60,
\* 80, and 100 as the last
C39_Witness ==
    \E c \in DOMAIN clients :
        /\ Len(clients[c].got) = 5
        /\ [j \in 1..5 |-> clients[c].got[j].progress] = <<20, 30, 60, 80, 100>>
        /\ reqs = Empty

\* C33: the step in which the tunnel call of an image or git deployment
\* settles, and its detached continuation runs, adds and removes no record,
\* leaves every record of another id as it was, and leaves the id,
\* localUrl, container, hostPort, status, type and source of its own record
\* as they were; when it settles with an address and the record exists, the
\* record's url is that address and hasPublicUrl is true
C33_AttachTouchesOnlyItsRecord ==
    [][\A id \in DOMAIN tcall :
          (/\ tcall[id].kind \in {"docker", "git"}
           /\ tcall[id].promise = "pending"
           /\ id \in DOMAIN tcall' /\ tcall'[id].promise # "pending") =>
              /\ DOMAIN deployments' = DOMAIN deployments
              /\ \A d \in DOMAIN deployments \ {id} : deployments'[d] = deployments[d]
              /\ id \in DOMAIN deployments =>
                    /\ deployments'[id].id = deployments[id].id
                    /\ deployments'[id].localUrl = deployments[id].localUrl
                    /\ deployments'[id].container = deployments[id].container
                    /\ deployments'[id].hostPort = deployments[id].hostPort
                    /\ deployments'[id].status = deployments[id].status
                    /\ deployments'[id].type = deployments[id].type
                    /\ deployments'[id].source = deployments[id].source
                    /\ deployments'[id].buildDir = deployments[id].buildDir
                    /\ IF tcall'[id].promise = "url"
                       THEN /\ deployments'[id].url = tcall'[id].url
                            /\ deployments'[id].hasPublicUrl
                       ELSE deployments'[id] = deployments[id]]_vars

\* C33 happens: the call of one deployment has settled with an address that
\* its record carries, while the record of another deployment, whose call
\* is still pending, has its local address
C33_Witness ==
    \E id, other \in DOMAIN deployments :
        /\ id # other
        /\ id \in DOMAIN tcall /\ tcall[id].promise = "url"
        /\ deployments[id].url \in TunnelUrls(id) /\ deployments[id].hasPublicUrl
        /\ other \in DOMAIN tcall /\ tcall[other].promise = "pending"
        /\ deployments[other].url = deployments[other].localUrl
        /\ ~deployments[other].hasPublicUrl

\* C34: while only this program removes containers, every record of the
\* store carries a container handle that is not null and names a container
\* the engine has, i.e. one that was created and whose removal no deletion
\* has completed; a record enters the store only from a request that is
\* past its createContainer call or from a row whose container the engine
\* found; the step in which a deletion removes the container takes the
\* record out of the store
C34_RecordsCarryLiveHandle ==
    /\ [](\A d \in DOMAIN deployments :
            /\ deployments[d].container # Null
            /\ deployments[d].container \in DOMAIN containers)
    /\ [][/\ \A d \in DOMAIN deployments' \ DOMAIN deployments :
                \/ /\ d \in DOMAIN reqs
                   /\ reqs[d].pc \in {"start", "verify", "tunnel"}
                   /\ deployments'[d].container = d
                \/ /\ boot.pc = "inspect" /\ boot.row = d
                   /\ table[d].container_id \in DOMAIN containers
                   /\ deployments'[d].container = table[d].container_id
          /\ \A s \in DOMAIN dels :
                (/\ dels[s].pc = "remove"
                 /\ dels'[s].pc # "remove"
                 /\ dels[s].container \in DOMAIN containers
                 /\ dels[s].container \notin DOMAIN containers') =>
                    dels[s].id \notin DOMAIN deployments']_vars

\* C34 happens: a deletion has removed the container of a deployment and
\* answered without warnings, and neither the record nor the container is
\* left, after the record had been rehydrated by a restart
C34_Witness ==
    /\ resp.op = "delete" /\ resp.code = 200 /\ resp.warnings = <<>>
    /\ resp.id \notin DOMAIN deployments
    /\ resp.id \notin DOMAIN containers
    /\ resp.port = Null

\* C35: an entry is written to the tunnel registry only in the step in
\* which the createPublicTunnel call of its id resolves to the address the
\* entry stores; a call that has resolved to none writes no entry
\* afterwards, and a call that has written an entry writes no second one
C35_RegistersOnlyResolvedUrl ==
    [][\A id \in DOMAIN tunnels' :
          (id \notin DOMAIN tunnels \/ tunnels'[id] # tunnels[id]) =>
              /\ id \in DOMAIN tcall
              /\ tcall[id].promise = "pending"
              /\ ~tcall[id].resolved
              /\ tcall'[id].promise = "url"
              /\ tcall'[id].url \in TunnelUrls(id)
              /\ tunnels'[id].url = tcall'[id].url]_vars

\* C36: every record whose hasPublicUrl is true has an entry in the tunnel
\* registry under its id, before and after a restart with its orphan
\* cleanup and reconciliation
C36_PublicRecordHasTunnel ==
    \A d \in DOMAIN deployments :
        deployments[d].hasPublicUrl => d \in DOMAIN tunnels

\* C37: for every record of the store, hasPublicUrl is true exactly when
\* url differs from localUrl, and then url is the tunnel address of the
\* record's id; it is false exactly when url is the local address; this
\* holds after creation, after the detached attach and after reconciliation
C37_PublicFlagMatchesUrl ==
    \A d \in DOMAIN deployments :
        LET r == deployments[d]
        IN /\ r.hasPublicUrl \in BOOLEAN
           /\ r.hasPublicUrl <=> (r.url # r.localUrl)
           /\ r.hasPublicUrl => r.url \in TunnelUrls(d)
           /\ ~r.hasPublicUrl => r.url[1] = "http://localhost:"

\* C38: until the server listens no request has been taken or answered and
\* no WebSocket is open; the server starts listening only in the step in
\* which loadDeploymentsFromDB returns, which it is called only when
\* cleanupOrphanedTunnels has returned, which is called only when initDB has
\* returned, with or without a connection; once listening the server does
\* not go back to startup
C38_ListenAfterReconciliation ==
    /\ [](boot.pc # "listening" =>
            /\ resp = NoResp
            /\ reqs = Empty /\ clients = Empty
            /\ \A s \in DOMAIN dels : dels[s] = IdleDel)
    /\ [][/\ (boot.pc # "listening" /\ boot'.pc = "listening") =>
                boot.pc \in {"select", "inspect", "delete"}
          /\ (boot.pc # "select" /\ boot'.pc = "select") => boot.pc = "cleanup"
          /\ (boot.pc # "cleanup" /\ boot'.pc = "cleanup") => boot.pc = "connect"
          /\ boot'.pc \in {"inspect", "delete"} =>
                boot.pc \in {"select", "inspect", "delete"}
          /\ boot'.pc \in {"connect", "wait"} => boot.pc \in {"connect", "wait"}
          /\ boot.pc = "listening" => boot'.pc = "listening"]_vars

\* C38 happens: initDB gave up without a connection, the server listens
\* with an empty store although the table has a row, and a request has
\* been answered
C38_Witness ==
    /\ boot.pc = "listening"
    /\ ~db
    /\ table # Empty /\ deployments = Empty
    /\ resp.op = "status" /\ resp.code = 404

=============================================================================
